---- MODULE Spec2Model ----
(***************************************************************************)
(* Verification model of the scraper pipelines of this repository.         *)
(*                                                                         *)
(* Spec      : the checkpointed orchestrator (run.py main / process_one    *)
(*             with checkpoint.py), several runs over one checkpoint dir.  *)
(* SpecSave  : one checkpoint save (atomic_write_json) step by step, with  *)
(*             crashes and an interleaved reader.                          *)
(***************************************************************************)
EXTENDS Integers, Sequences, FiniteSets, TLC

VARIABLES
    \* ---- orchestrator (Spec) ----
    disk,             \* checkpoint directory: campus_id -> checkpoint JSON
    runNo,            \* number of runs started so far
    phase,            \* "idle" | "gathering" | "written" | "aborted" | "crashed"
    args,             \* parsed command line of the current run
    rows,             \* input rows of the current run
    task,             \* per row: the coroutine process_one(idx, total, row)
    sem,              \* asyncio.Semaphore value
    waiters,          \* tasks blocked in sem.acquire(), FIFO
    running,          \* task that holds the event loop (0: all suspended)
    all_candidates,   \* run-level aggregates
    all_validated,
    all_jalur_items,
    outFiles,         \* aggregate files written by the current run
    firstOut,         \* per campus_id: what the run that completed it put out
    \* ---- checkpoint save (SpecSave) ----
    fs,               \* path -> file content (sequence of chunks)
    savePc,           \* position of the writer inside atomic_write_json
    saveObj,          \* the object being saved
    saveOld,          \* content of the target when the save began
    observed,         \* what read_json-style readers saw at the target path
    \* ---- validate/extract loop of the fee pipeline (SpecGate) ----
    gArgs,            \* parsed command line: validate_only
    gCands,           \* candidates returned by crawl_site
    gate,             \* position in the loop: pc, j, verdict, asset_links
    fee_validated,    \* all_validated of the fee pipeline
    all_fee_items,    \* extracted items, each with its _source_url
    gVerdicts,        \* every (source, verdict) judged in this run
    gExtracted,       \* sources handed to the extractor in this run
    \* ---- one validator / extractor oracle call (SpecValidator) ----
    vCall,            \* the call: module, function, text features, tries
    vPc,              \* position inside the call
    vI,               \* loop index of _retry_call
    vLast,            \* _retry_call's last
    vLog,             \* oracle outcomes so far, one per oracle call
    vResult,          \* verdict returned, or "raised"
    \* ---- crawl_site (SpecCrawl) ----
    cIn,              \* official_website, max_pages and the site crawled
    q,                \* heap of (-prio, counter, url)
    counter,
    visited,
    candidates,
    cPc,              \* position inside crawl_site
    cUrl,             \* url of the current iteration
    cPopped,          \* the last heappop: entry popped and the heap before
    fetchLog,         \* the fetches issued: url, ok, final_url
    best,             \* the list crawl_site returns
    \* ---- dedupe_candidates (SpecDedupe) ----
    dIn,              \* the collected candidates
    dI,               \* loop index
    seen,             \* the dict, in insertion order
    dPc,
    \* ---- one call of a helper function (SpecHelpers) ----
    hIn,              \* the function called and its arguments
    hPc,              \* "call" | "returned"
    hOut,             \* what it returned
    \* ---- crawl_site of the admission pipeline (SpecAdmission) ----
    aIn,              \* official_website, max_pages, the site and its menu
    aPc,              \* position inside crawl_site
    roots,
    aQ,               \* the deque of (url, depth)
    aVisited,
    aCandidates,
    aBest,            \* the list crawl_site returns
    \* ---- GeminiJSON._extract of the prodi pipeline (SpecGemini) ----
    gmIn,             \* primary model name and max_retries
    gmPc,             \* "loop" | "returned"
    gmModel,          \* index into self.models of the model tried
    gmAttempt,        \* attempt of the inner loop
    gmCalls,          \* the model names called, in order
    gmLast,           \* what the last call brought back
    gmUsage,          \* total_usage, in tokens
    gmOut,            \* the data returned
    \* ---- what the interruptions so far cut short (history, kept across runs) ----
    interrupted,      \* (campus_id, url) judged valid on disk, extraction not begun
    \* ---- main of the job-prospect pipeline (SpecProspek) ----
    pkDisk,           \* checkpoint.json (done_urls) and majors_prospek.jsonl (major_url of each line)
    pkRun,            \* number of runs started
    pkPc,             \* position inside main, or how the process ended
    pkI,              \* index into majors of the loop of line 152
    done_urls,        \* the set of line 104
    existing_major_urls,\* the set of line 112
    buffer_major,     \* records not yet appended to the file
    STOP_REQUESTED,   \* set by the SIGINT handler
    \* ---- main of the jurusan pipeline (SpecJurusan) ----
    jFile,            \* state_run_jurusan.json: missing, or the object dumped and the chunks written
    jOut,             \* rows in the final and in the partial output files
    jRun,             \* number of runs started
    jPc,              \* position inside main, or how the process ended
    jI,               \* index of the input row of the loop of line 234
    jState,           \* the dict state, key -> status ("" for no entry)
    jRows,            \* the list rows, one row per program, written as its entity
    jPending          \* outcome of the entity whose state is being saved

runVars == <<disk, runNo, phase, args, rows, task, sem, waiters, running,
             all_candidates, all_validated, all_jalur_items, outFiles, firstOut>>
saveVars == <<fs, savePc, saveObj, saveOld, observed>>
gateVars == <<gArgs, gCands, gate, fee_validated, all_fee_items, gVerdicts,
              gExtracted>>
valVars == <<vCall, vPc, vI, vLast, vLog, vResult>>
crawlVars == <<cIn, q, counter, visited, candidates, cPc, cUrl, cPopped,
               fetchLog, best>>
dedupeVars == <<dIn, dI, seen, dPc>>
helperVars == <<hIn, hPc, hOut>>
admVars == <<aIn, aPc, roots, aQ, aVisited, aCandidates, aBest>>
gemVars == <<gmIn, gmPc, gmModel, gmAttempt, gmCalls, gmLast, gmUsage, gmOut>>
histVars == <<interrupted>>
pkVars == <<pkDisk, pkRun, pkPc, pkI, done_urls, existing_major_urls, buffer_major, STOP_REQUESTED>>
jurVars == <<jFile, jOut, jRun, jPc, jI, jState, jRows, jPending>>
vars == <<disk, runNo, phase, args, rows, task, sem, waiters, running,
          all_candidates, all_validated, all_jalur_items, outFiles, firstOut,
          fs, savePc, saveObj, saveOld, observed,
          gArgs, gCands, gate, fee_validated, all_fee_items, gVerdicts,
          gExtracted,
          vCall, vPc, vI, vLast, vLog, vResult,
          cIn, q, counter, visited, candidates, cPc, cUrl, cPopped,
          fetchLog, best,
          dIn, dI, seen, dPc,
          hIn, hPc, hOut,
          aIn, aPc, roots, aQ, aVisited, aCandidates, aBest,
          gmIn, gmPc, gmModel, gmAttempt, gmCalls, gmLast, gmUsage, gmOut,
          interrupted,
          pkDisk, pkRun, pkPc, pkI, done_urls, existing_major_urls, buffer_major, STOP_REQUESTED,
          jFile, jOut, jRun, jPc, jI, jState, jRows, jPending>>

\* what the actions of one part leave alone
offRun == <<saveVars, gateVars, valVars, crawlVars, dedupeVars, helperVars,
    admVars,
    gemVars,
    histVars,
    pkVars,
    jurVars>>
offSave == <<runVars, gateVars, valVars, crawlVars, dedupeVars, helperVars,
    admVars,
    gemVars,
    histVars,
    pkVars,
    jurVars>>
offGate == <<runVars, saveVars, valVars, crawlVars, dedupeVars, helperVars,
    admVars,
    gemVars,
    histVars,
    pkVars,
    jurVars>>
offVal == <<runVars, saveVars, gateVars, crawlVars, dedupeVars, helperVars,
    admVars,
    gemVars,
    histVars,
    pkVars,
    jurVars>>
offCrawl == <<runVars, saveVars, gateVars, valVars, dedupeVars, helperVars,
    admVars,
    gemVars,
    histVars,
    pkVars,
    jurVars>>
offDedupe == <<runVars, saveVars, gateVars, valVars, crawlVars, helperVars,
    admVars,
    gemVars,
    histVars,
    pkVars,
    jurVars>>
offHelpers == <<runVars, saveVars, gateVars, valVars, crawlVars, dedupeVars,
    admVars,
    gemVars,
    histVars,
    pkVars,
    jurVars>>
offAdm == <<runVars, saveVars, gateVars, valVars, crawlVars, dedupeVars,
    helperVars,
    gemVars,
    histVars,
    pkVars,
    jurVars>>
offGem == <<runVars, saveVars, gateVars, valVars,
    crawlVars, dedupeVars, helperVars, admVars,
    histVars,
    pkVars,
    jurVars>>
offPk == <<runVars, saveVars, gateVars, valVars,
    crawlVars, dedupeVars, helperVars, admVars, gemVars, histVars,
    jurVars>>
offJur == <<runVars, saveVars, gateVars, valVars,
    crawlVars, dedupeVars, helperVars, admVars, gemVars, histVars, pkVars>>

(***************************************************************************)
(* Bounds                                                                  *)
(***************************************************************************)
MaxRuns == 2
MaxItems == 1

(***************************************************************************)
(* Text helpers: strings are sequences of one-character strings.           *)
(***************************************************************************)
Max(a, b) == IF a >= b THEN a ELSE b

Take(s, n) == SubSeq(s, 1, IF Len(s) < n THEN Len(s) ELSE n)

Rep(c, n) == [i \in 1..n |-> c]

InsertAt(xs, i, x) == SubSeq(xs, 1, i) \o <<x>> \o SubSeq(xs, i + 1, Len(xs))

Spaces == {" ", "\t"}

IsSpace(c) == c \in Spaces

Lower(c) ==
    CASE c = "A" -> "a"
      [] c = "B" -> "b"
      [] c = "U" -> "u"
      [] OTHER -> c

IsSlugChar(c) == c \in {"a", "b", "u", "x", "y", "0", "1", "-"} \/ IsSpace(c)

RECURSIVE LStrip(_, _)
LStrip(s, chars) ==
    IF s # <<>> /\ Head(s) \in chars THEN LStrip(Tail(s), chars) ELSE s

RECURSIVE RStrip(_, _)
RStrip(s, chars) ==
    IF s # <<>> /\ s[Len(s)] \in chars
    THEN RStrip(SubSeq(s, 1, Len(s) - 1), chars) ELSE s

Strip(s, chars) == RStrip(LStrip(s, chars), chars)

IsDash(c) == c = "-"

\* re.sub(r"[^a-z0-9\s-]", "", text)
RECURSIVE DropNonSlug(_)
DropNonSlug(s) ==
    IF s = <<>> THEN <<>>
    ELSE IF IsSlugChar(Head(s)) THEN <<Head(s)>> \o DropNonSlug(Tail(s))
    ELSE DropNonSlug(Tail(s))

\* re.sub(r"\s+", "-", text): every maximal run of whitespace becomes one "-"
RECURSIVE SpacesToDash(_)
SpacesToDash(s) ==
    IF s = <<>> THEN <<>>
    ELSE IF IsSpace(Head(s)) THEN <<"-">> \o SpacesToDash(LStrip(s, Spaces))
    ELSE <<Head(s)>> \o SpacesToDash(Tail(s))

\* re.sub(r"-+", "-", text)
RECURSIVE CollapseDash(_)
CollapseDash(s) ==
    IF s = <<>> THEN <<>>
    ELSE IF IsDash(Head(s)) THEN <<"-">> \o CollapseDash(LStrip(s, {"-"}))
    ELSE <<Head(s)>> \o CollapseDash(Tail(s))

slugify(text) ==
    LET t0 == Strip(text, Spaces)
        t1 == [i \in 1..Len(t0) |-> Lower(t0[i])]
        t2 == DropNonSlug(t1)
        t3 == SpacesToDash(t2)
        t4 == Strip(CollapseDash(t3), {"-"})
    IN  IF t4 = <<>> THEN <<"i", "t", "e", "m">> ELSE t4

(***************************************************************************)
(* checkpoint.py                                                           *)
(***************************************************************************)
SlugPrefixLen == 40

\* hashlib.sha1(url.strip()).hexdigest()[:8]: a function of the stripped URL
Sha1Hex8(url) == <<"sha1", Strip(url, Spaces)>>

make_campus_id(campus_name, official_website) ==
    LET name_part == Take(slugify(campus_name), SlugPrefixLen)
        h == Sha1Hex8(official_website)
    IN  IF name_part # <<>> THEN <<name_part, h>> ELSE <<<<"campus">>, h>>

Stats(state) ==
    [candidates |-> Len(state.candidates),
     validated |-> Len(state.validated),
     fee_items |-> Len(state.fee_items)]

\* "jalur_items" is not among the keys init_checkpoint creates
init_checkpoint(campus_id, campus_name, official_website) ==
    [campus_id |-> campus_id,
     campus_name |-> campus_name,
     official_website |-> official_website,
     status |-> "started",
     candidates |-> <<>>,
     validated |-> <<>>,
     fee_items |-> <<>>,
     errors |-> <<>>,
     stats |-> [candidates |-> 0, validated |-> 0, fee_items |-> 0],
     has_jalur_items |-> FALSE,
     jalur_items |-> <<>>]

touch_stats(state) == [state EXCEPT !.stats = Stats(state)]

StatusRank(s) ==
    CASE s = "started" -> 0
      [] s = "crawled" -> 1
      [] s = "done" -> 2
      [] OTHER -> 0

checkpoint_path(campus_id) == campus_id

\* read_json: None (here: absence from the directory) when the file is missing
HasFile(path) == path \in DOMAIN disk

\* atomic_write_json seen from the other coroutines of the run: the whole
\* function is synchronous, the target changes at os.replace (see SpecSave)
atomic_write_json(d, path, obj) ==
    [p \in DOMAIN d \cup {path} |-> IF p = path THEN obj ELSE d[p]]

(***************************************************************************)
(* Inputs of the orchestrator                                              *)
(***************************************************************************)
U1 == <<"u", "1">>
U2 == <<"u", "0">>
NameA == Rep("a", 40) \o <<"x">>
NameB == <<" ", "A">> \o Rep("a", 39) \o <<"y">>
NameC == <<"U", "!", " ", " ", "b">>

RowA == [kampus_name |-> NameA, official_website |-> U2]
RowB == [kampus_name |-> NameB, official_website |-> U2 \o <<" ">>]
RowC == [kampus_name |-> NameC, official_website |-> U1]
RowD == [kampus_name |-> NameC, official_website |-> <<" ">>]

\* the input spreadsheets: one row, the same row twice, two names with the
\* same slug prefix on one site, two different entities, a row without site
InputLists ==
    { <<RowC>>, <<RowA>>,
      <<RowA, RowA>>, <<RowA, RowB>>,
      <<RowA, RowC>>, <<RowC, RowA>>, <<RowD, RowA>> }

Concurrencies == {0, 2}
CheckpointEverys == {0, 1}

ArgSets ==
    { a \in [no_resume : BOOLEAN, force : BOOLEAN, validate_only : BOOLEAN,
             concurrency : Concurrencies, checkpoint_every : CheckpointEverys] :
        ~(a.no_resume /\ a.force) }

NoArgs ==
    [no_resume |-> FALSE, force |-> FALSE, validate_only |-> FALSE,
     concurrency |-> 0, checkpoint_every |-> 0]

\* re-runs over the same input are followed for inputs of at most this many rows
MaxRerunRows == 1

\* what crawl_site finds on a site when its pages can be fetched
SiteCandidates(site) ==
    IF site = U1
    THEN << [url |-> "u1/jadwal", kind |-> "html"],
            [url |-> "u1/jalur.pdf", kind |-> "pdf"] >>
    ELSE << [url |-> "u0/brosur.png", kind |-> "image"] >>

Verdicts == {"valid", "invalid", "uncertain"}

\* the list the extractor returns for one source: n items, provenance added
\* by the caller (it["_source_url"] = url)
ItemList(url, n) == [i \in 1..n |-> [name |-> i, _source_url |-> url]]

(***************************************************************************)
(* process_one: the coroutine of one input row                             *)
(***************************************************************************)
Tasks == DOMAIN task

Resume == (~args.no_resume) /\ (~args.force)

Key(c) == <<c.kind, c.url>>

KeysOf(validated) == {Key(validated[i]) : i \in 1..Len(validated)}

SourcesOf(items) == {items[i]._source_url : i \in 1..Len(items)}

NewTask(row) ==
    [pc |-> "new",
     campus |-> Strip(row.kampus_name, Spaces),
     base |-> Strip(row.official_website, Spaces),
     campus_id |-> <<>>,
     cp_state |-> init_checkpoint(<<>>, <<>>, <<>>),
     candidates |-> <<>>,
     j |-> 1,
     validated_set |-> {},
     extracted_set |-> {},
     writes_since_flush |-> 0,
     exc |-> "",            \* type name of the exception being handled
     resumed |-> FALSE,     \* cp_state came from the checkpoint file
     loaded |-> <<>>,       \* the validated list of the loaded checkpoint
     fetched |-> {},        \* what this coroutine fetched in this run
     tried |-> {},          \* urls this coroutine handed to the extractor
     oracle |-> {}]         \* keys this coroutine sent to the oracle

Cand(t) == task[t].candidates[task[t].j]

\* lines 273-287: candidates into the run output, then the resume sets
BuildResumeSets(tr, cands) ==
    [tr EXCEPT !.candidates = cands,
               !.validated_set = KeysOf(tr.cp_state.validated),
               !.extracted_set =
                   IF tr.cp_state.has_jalur_items
                   THEN SourcesOf(tr.cp_state.jalur_items) ELSE {},
               !.j = 1,
               !.writes_since_flush = 0,
               !.pc = "loop"]

\* lines 224-243 up to the call of crawl_site or the reuse of the candidates
EnterSection(t, tr0) ==
    LET path == checkpoint_path(tr0.campus_id)
        fromFile == Resume /\ HasFile(path)
        cp0 == IF fromFile THEN disk[path]
               ELSE init_checkpoint(tr0.campus_id, tr0.campus, tr0.base)
        tr1 == [tr0 EXCEPT !.cp_state = cp0, !.resumed = fromFile,
                           !.loaded = IF fromFile THEN cp0.validated ELSE <<>>]
    IN  /\ disk' = IF fromFile THEN disk ELSE atomic_write_json(disk, path, cp0)
        /\ IF cp0.candidates # <<>>
           THEN /\ task' = [task EXCEPT ![t] = BuildResumeSets(tr1, cp0.candidates)]
                /\ all_candidates' = all_candidates \o cp0.candidates
           ELSE /\ task' = [task EXCEPT ![t] = [tr1 EXCEPT !.pc = "crawl"]]
                /\ all_candidates' = all_candidates
        /\ running' = t

\* line 213: cp.get("status") == "done"
IsDoneTypo(cp) == cp.status = "DONE"

IsDone(cp) == cp.status = "done"

\* line 152: asyncio.Semaphore(max(1, args.concurrency))
SemaphoreValueOffByOne(a) == Max(1, a.concurrency) + 1

SemaphoreValue(a) == Max(1, a.concurrency)

StartRun(a) ==
    /\ phase \in {"idle", "written", "aborted", "crashed"}
    /\ runNo < MaxRuns
    /\ runNo = 0 \/ Len(rows) <= MaxRerunRows
    /\ a.concurrency = args.concurrency
    /\ a.checkpoint_every = args.checkpoint_every
    /\ runNo' = runNo + 1
    /\ phase' = "gathering"
    /\ args' = a
    /\ rows' = rows
    /\ task' = [t \in 1..Len(rows) |-> NewTask(rows[t])]
    /\ sem' = SemaphoreValue(a)
    /\ waiters' = <<>>
    /\ running' = 0
    /\ all_candidates' = <<>>
    /\ all_validated' = <<>>
    /\ all_jalur_items' = <<>>
    /\ outFiles' = <<>>
    /\ UNCHANGED <<disk, firstOut>>
    /\ UNCHANGED offRun

\* a coroutine may take a step when no other coroutine holds the event loop
CanStep(t) == phase = "gathering" /\ t \in Tasks /\ running \in {0, t}

AllStarted == \A u \in Tasks : task[u].pc # "new"

\* a suspended coroutine is resumed only after gather has started them all
CanResume(t) == CanStep(t) /\ (running = t \/ AllStarted)

\* lines 202-223: gather starts the coroutines in row order; each runs up to
\* its first suspension
Start(t) ==
    /\ CanStep(t)
    /\ task[t].pc = "new"
    /\ \A u \in Tasks : u < t => task[u].pc # "new"
    /\ LET tr == task[t]
           cid == make_campus_id(tr.campus, tr.base)
           path == checkpoint_path(cid)
           trc == [tr EXCEPT !.campus_id = cid]
       IN  IF tr.base = <<>>
           THEN /\ task' = [task EXCEPT ![t].pc = "nobase"]
                /\ running' = 0
                /\ UNCHANGED <<disk, sem, waiters, all_candidates,
                               all_validated, all_jalur_items>>
           ELSE IF Resume /\ HasFile(path) /\ IsDone(disk[path])
           THEN /\ task' = [task EXCEPT ![t] = [trc EXCEPT !.pc = "skipped"]]
                /\ all_candidates' = all_candidates \o disk[path].candidates
                /\ all_validated' = all_validated \o disk[path].validated
                /\ all_jalur_items' = all_jalur_items \o
                       (IF disk[path].has_jalur_items
                        THEN disk[path].jalur_items ELSE <<>>)
                /\ running' = 0
                /\ UNCHANGED <<disk, sem, waiters>>
           ELSE IF sem > 0 /\ waiters = <<>>
           THEN /\ sem' = sem - 1
                /\ EnterSection(t, trc)
                /\ UNCHANGED <<waiters, all_validated, all_jalur_items>>
           ELSE /\ task' = [task EXCEPT ![t] = [trc EXCEPT !.pc = "waitsem"]]
                /\ waiters' = Append(waiters, t)
                /\ running' = 0
                /\ UNCHANGED <<disk, sem, all_candidates, all_validated,
                               all_jalur_items>>
    /\ UNCHANGED <<runNo, phase, args, rows, outFiles, firstOut>>
    /\ UNCHANGED offRun

\* sem.acquire() returns for the longest-waiting coroutine
Wake(t) ==
    /\ CanResume(t)
    /\ task[t].pc = "waitsem"
    /\ sem > 0
    /\ waiters # <<>> /\ Head(waiters) = t
    /\ sem' = sem - 1
    /\ waiters' = Tail(waiters)
    /\ EnterSection(t, task[t])
    /\ UNCHANGED <<runNo, phase, args, rows, all_validated, all_jalur_items,
                   outFiles, firstOut>>
    /\ UNCHANGED offRun


\* lines 340-344 (and their copies): count one write, flush when due
Flushes(tr) ==
    args.checkpoint_every > 0 /\ tr.writes_since_flush + 1 >= args.checkpoint_every

CountWrite(tr) ==
    IF Flushes(tr)
    THEN [tr EXCEPT !.cp_state = touch_stats(@), !.writes_since_flush = 0]
    ELSE [tr EXCEPT !.writes_since_flush = @ + 1]

FlushedDisk(before, after) ==
    IF Flushes(before)
    THEN atomic_write_json(disk, checkpoint_path(after.campus_id), after.cp_state)
    ELSE disk

ValidatedRecord(tr, c, verdict) ==
    [_campus_id |-> tr.campus_id, url |-> c.url, kind |-> c.kind,
     verdict |-> verdict]

\* all_validated.append(v); cp_state["validated"].append(v); validated_set.add(key)
RecordKeyOnly(tr, c, verdict) ==
    [tr EXCEPT !.validated_set = @ \cup {Key(c)}]

Record(tr, c, verdict) ==
    [tr EXCEPT !.cp_state.validated = Append(@, ValidatedRecord(tr, c, verdict)),
               !.validated_set = @ \cup {Key(c)}]

NextCandidate(tr) == [tr EXCEPT !.j = @ + 1, !.pc = "loop"]

InLoop(t) == task[t].pc = "loop" /\ task[t].j <= Len(task[t].candidates)

\* lines 305-307: key = f"{kind}::{url}"; key in validated_set
AlreadyValidatedSwapped(t) ==
    Resume /\ <<Cand(t).url, Cand(t).kind>> \in task[t].validated_set

AlreadyValidated(t) == Resume /\ Key(Cand(t)) \in task[t].validated_set

\* await fetch_html_async(url) inside crawl_site
CrawlFetch(t) ==
    /\ CanResume(t)
    /\ task[t].pc = "crawl"
    /\ task' = [task EXCEPT ![t].fetched = @ \cup {"crawl"}]
    /\ running' = 0
    /\ UNCHANGED <<disk, runNo, phase, args, rows, sem, waiters, all_candidates,
                   all_validated, all_jalur_items, outFiles, firstOut>>
    /\ UNCHANGED offRun

\* the awaited fetch raises: crawl_site and process_one propagate it, the
\* "async with sem" block releases the semaphore
CrawlRaise(t) ==
    /\ CanResume(t) /\ running = 0
    /\ task[t].pc = "crawl"
    /\ "crawl" \in task[t].fetched
    /\ task' = [task EXCEPT ![t].pc = "raised", ![t].exc = "RetryError"]
    /\ sem' = sem + 1
    /\ running' = 0
    /\ UNCHANGED <<disk, runNo, phase, args, rows, waiters, all_candidates,
                   all_validated, all_jalur_items, outFiles, firstOut>>
    /\ UNCHANGED offRun

\* lines 252-287: crawl_site returns, candidates are stored and flushed
CrawlReturn(t, pagesOk) ==
    /\ CanResume(t) /\ running = 0
    /\ task[t].pc = "crawl"
    /\ "crawl" \in task[t].fetched
    /\ LET tr == task[t]
           found == IF pagesOk THEN SiteCandidates(tr.base) ELSE <<>>
           cands == [i \in 1..Len(found) |->
                        [_campus_id |-> tr.campus_id, url |-> found[i].url,
                         kind |-> found[i].kind]]
           cp1 == touch_stats([tr.cp_state EXCEPT !.candidates = cands,
                                                  !.status = "crawled"])
           tr1 == BuildResumeSets([tr EXCEPT !.cp_state = cp1], cands)
       IN  /\ task' = [task EXCEPT ![t] = tr1]
           /\ disk' = atomic_write_json(disk, checkpoint_path(tr.campus_id), cp1)
           /\ all_candidates' = all_candidates \o cands
    /\ running' = t
    /\ UNCHANGED <<runNo, phase, args, rows, sem, waiters, all_validated,
                   all_jalur_items, outFiles, firstOut>>
    /\ UNCHANGED offRun

\* lines 307-309
LoopSkip(t) ==
    /\ CanResume(t)
    /\ InLoop(t)
    /\ AlreadyValidated(t)
    /\ task' = [task EXCEPT ![t] = NextCandidate(@)]
    /\ running' = t
    /\ UNCHANGED <<disk, runNo, phase, args, rows, sem, waiters, all_candidates,
                   all_validated, all_jalur_items, outFiles, firstOut>>
    /\ UNCHANGED offRun

\* lines 314-320: await fetch_best_html_text(...); req.fetch may raise
HtmlFetch(t, raises) ==
    /\ CanResume(t)
    /\ InLoop(t)
    /\ ~AlreadyValidated(t)
    /\ Cand(t).kind = "html"
    /\ task' = [task EXCEPT ![t].fetched = @ \cup {Cand(t).url},
                            ![t].pc = IF raises THEN "except" ELSE "validate",
                            ![t].exc = IF raises THEN "RetryError" ELSE ""]
    /\ running' = 0
    /\ UNCHANGED <<disk, runNo, phase, args, rows, sem, waiters, all_candidates,
                   all_validated, all_jalur_items, outFiles, firstOut>>
    /\ UNCHANGED offRun

\* lines 371-387 and 442-458: req.fetch(url) of a pdf or image candidate
AssetFetch(t, res) ==
    /\ CanResume(t)
    /\ InLoop(t)
    /\ ~AlreadyValidated(t)
    /\ Cand(t).kind \in {"pdf", "image"}
    /\ LET tr == [task[t] EXCEPT !.fetched = @ \cup {Cand(t).url}]
           c == Cand(t)
       IN  CASE res = "ok" ->
                  /\ task' = [task EXCEPT ![t] = [tr EXCEPT !.pc = "validate"]]
                  /\ UNCHANGED all_validated
             [] res = "fail" ->
                  /\ task' = [task EXCEPT ![t] =
                                 NextCandidate(Record(tr, c, "invalid"))]
                  /\ all_validated' =
                         Append(all_validated, ValidatedRecord(tr, c, "invalid"))
             [] res = "raise" ->
                  /\ task' = [task EXCEPT ![t] =
                                 [tr EXCEPT !.pc = "except", !.exc = "RetryError"]]
                  /\ UNCHANGED all_validated
    /\ running' = t
    /\ UNCHANGED <<disk, runNo, phase, args, rows, sem, waiters, all_candidates,
                   all_jalur_items, outFiles, firstOut>>
    /\ UNCHANGED offRun

\* lines 322-351 (html), 389-422 (pdf), 460-489 (image)
Validate(t, out) ==
    /\ CanResume(t)
    /\ task[t].pc = "validate"
    /\ out = "gate" => Cand(t).kind \in {"html", "pdf"}
    /\ LET tr == task[t]
           c == Cand(t)
           verdict == IF out = "gate" THEN "invalid" ELSE out
           tro == IF out = "gate" THEN tr
                  ELSE [tr EXCEPT !.oracle = @ \cup {Key(c)}]
           trr == Record(tro, c, verdict)
           trf == CountWrite(trr)
       IN  IF out = "raise"
           THEN /\ task' = [task EXCEPT ![t] =
                               [tro EXCEPT !.pc = "except", !.exc = "Exception"]]
                /\ UNCHANGED <<disk, all_validated>>
           ELSE /\ all_validated' =
                       Append(all_validated, ValidatedRecord(tr, c, verdict))
                /\ disk' = FlushedDisk(trr, trf)
                /\ task' = [task EXCEPT ![t] =
                       IF verdict # "valid" \/ args.validate_only
                       THEN NextCandidate(trf)
                       ELSE IF Resume /\ c.url \in trf.extracted_set
                       THEN NextCandidate(trf)
                       ELSE [trf EXCEPT !.pc = "extract"]]
    /\ running' = t
    /\ UNCHANGED <<runNo, phase, args, rows, sem, waiters, all_candidates,
                   all_jalur_items, outFiles, firstOut>>
    /\ UNCHANGED offRun

\* enrich_jalur_item_with_campus and the provenance fields
Enrich(tr, it) ==
    [name |-> it.name, _source_url |-> it._source_url,
     _campus_id |-> tr.campus_id]

\* lines 353-369 (html), 424-440 (pdf), 491-507 (image)
Extract(t, n, raises) ==
    /\ CanResume(t)
    /\ task[t].pc = "extract"
    /\ LET items == ItemList(Cand(t).url, n)
           tr == [task[t] EXCEPT !.oracle = @ \cup {Key(Cand(t))},
                                 !.tried = @ \cup {Cand(t).url}]
           c == Cand(t)
           its == [i \in 1..Len(items) |-> Enrich(tr, items[i])]
           trx == [tr EXCEPT !.cp_state.jalur_items = @ \o its,
                             !.extracted_set = @ \cup {c.url}]
           trf == CountWrite(trx)
       IN  IF raises
           THEN \* json.loads(raw) fails inside the extractor
                /\ task' = [task EXCEPT ![t] =
                               [tr EXCEPT !.pc = "except", !.exc = "JSONDecodeError"]]
                /\ UNCHANGED <<disk, all_jalur_items>>
           ELSE IF its # <<>> /\ ~tr.cp_state.has_jalur_items
           THEN \* all_jalur_items.append(it), then cp_state["jalur_items"] raises
                /\ all_jalur_items' = Append(all_jalur_items, its[1])
                /\ task' = [task EXCEPT ![t] =
                               [tr EXCEPT !.pc = "except", !.exc = "KeyError"]]
                /\ UNCHANGED disk
           ELSE /\ all_jalur_items' = all_jalur_items \o its
                /\ disk' = FlushedDisk(trx, trf)
                /\ task' = [task EXCEPT ![t] = NextCandidate(trf)]
    /\ running' = t
    /\ UNCHANGED <<runNo, phase, args, rows, sem, waiters, all_candidates,
                   all_validated, outFiles, firstOut>>
    /\ UNCHANGED offRun

\* lines 511-525: the uncertain record and the checkpoint's error log
HandledNoLog(tr, c) == [Record(tr, c, "uncertain") EXCEPT !.exc = ""]

Handled(tr, c) ==
    [Record(tr, c, "uncertain") EXCEPT
        !.cp_state.errors = Append(@, tr.exc), !.exc = ""]

\* lines 509-531: except Exception
Handler(t) ==
    /\ CanResume(t)
    /\ task[t].pc = "except"
    /\ LET tr == task[t]
           c == Cand(t)
           trr == Handled(tr, c)
           trf == CountWrite(trr)
       IN  /\ all_validated' =
                  Append(all_validated, ValidatedRecord(tr, c, "uncertain"))
           /\ disk' = FlushedDisk(trr, trf)
           /\ task' = [task EXCEPT ![t] = NextCandidate(trf)]
    /\ running' = t
    /\ UNCHANGED <<runNo, phase, args, rows, sem, waiters, all_candidates,
                   all_jalur_items, outFiles, firstOut>>
    /\ UNCHANGED offRun

\* lines 533-538: final flush, then the semaphore is released
Finish(t) ==
    /\ CanResume(t)
    /\ task[t].pc = "loop"
    /\ task[t].j > Len(task[t].candidates)
    /\ LET tr == task[t]
           cp1 == [touch_stats(tr.cp_state) EXCEPT !.status = "done"]
       IN  /\ task' = [task EXCEPT ![t] = [tr EXCEPT !.cp_state = cp1,
                                                     !.pc = "finished"]]
           /\ disk' = atomic_write_json(disk, checkpoint_path(tr.campus_id), cp1)
    /\ sem' = sem + 1
    /\ running' = 0
    /\ UNCHANGED <<runNo, phase, args, rows, waiters, all_candidates,
                   all_validated, all_jalur_items, outFiles, firstOut>>
    /\ UNCHANGED offRun


(***************************************************************************)
(* main(): gather, then the run-level files                                *)
(***************************************************************************)
Returned(t) == task[t].pc \in {"nobase", "skipped", "finished"}

OfCampus(seq, cid) ==
    LET Mine(x) == x._campus_id = cid IN SelectSeq(seq, Mine)

\* the part of the run output that belongs to one campus_id
EntityOut(cid) ==
    [candidates |-> OfCampus(all_candidates, cid),
     validated |-> OfCampus(all_validated, cid),
     jalur_items |-> OfCampus(all_jalur_items, cid)]

FinishedIds == {task[t].campus_id : t \in {u \in Tasks : task[u].pc = "finished"}}

\* lines 544-571: every coroutine returned, the JSON outputs are written
MainWrite ==
    /\ phase = "gathering"
    /\ running = 0
    /\ \A t \in Tasks : Returned(t)
    /\ phase' = "written"
    /\ outFiles' = [candidates_all |-> all_candidates,
                    validated_links |-> all_validated,
                    jalur_items_extracted |->
                        IF args.validate_only THEN <<>> ELSE all_jalur_items]
    /\ firstOut' = [cid \in DOMAIN firstOut \cup FinishedIds |->
                       IF cid \in FinishedIds THEN EntityOut(cid)
                       ELSE firstOut[cid]]
    /\ UNCHANGED <<disk, runNo, args, rows, task, sem, waiters, running,
                   all_candidates, all_validated, all_jalur_items>>
    /\ UNCHANGED offRun

\* line 544: gather(*tasks) without return_exceptions re-raises the first
\* exception in main(); asyncio.run then cancels the coroutines still pending
MainAbort ==
    /\ phase = "gathering"
    /\ running = 0
    /\ \E t \in Tasks : task[t].pc = "raised"
    /\ phase' = "aborted"
    /\ task' = [t \in Tasks |->
                   IF Returned(t) \/ task[t].pc = "raised" THEN task[t]
                   ELSE [task[t] EXCEPT !.pc = "cancelled"]]
    /\ UNCHANGED <<disk, runNo, args, rows, sem, waiters, running,
                   all_candidates, all_validated, all_jalur_items, outFiles,
                   firstOut>>
    /\ UNCHANGED offRun

\* the candidates whose valid verdict is in the checkpoint file while the
\* coroutine stands before the extractor call (lines 346-354)
CutShort ==
    {<<task[t].campus_id, Cand(t).url>> :
        t \in {u \in Tasks :
                  /\ task[u].pc = "extract"
                  /\ HasFile(checkpoint_path(task[u].campus_id))
                  /\ \E i \in 1..Len(disk[checkpoint_path(task[u].campus_id)].validated) :
                         LET v == disk[checkpoint_path(task[u].campus_id)].validated[i]
                         IN  Key(v) = Key(Cand(u)) /\ v.verdict = "valid"}}

\* the process is interrupted or killed: memory is lost, the directory stays
Crash ==
    /\ phase = "gathering"
    /\ phase' = "crashed"
    /\ args' = [NoArgs EXCEPT !.concurrency = args.concurrency,
                              !.checkpoint_every = args.checkpoint_every]
    /\ rows' = rows
    /\ task' = <<>>
    /\ sem' = 0
    /\ waiters' = <<>>
    /\ running' = 0
    /\ all_candidates' = <<>>
    /\ all_validated' = <<>>
    /\ all_jalur_items' = <<>>
    /\ interrupted' = interrupted \cup CutShort
    /\ UNCHANGED <<disk, runNo, outFiles, firstOut>>
    /\ UNCHANGED <<saveVars, gateVars, valVars, crawlVars, dedupeVars,
                   helperVars, admVars, gemVars, pkVars, jurVars>>

(***************************************************************************)
(* atomic_write_json, step by step                                         *)
(***************************************************************************)
MaxSaves == 4
Chunks == 3

Target == <<"cp.json">>

\* json.dump(obj) written out completely
Complete(obj) == [i \in 1..Chunks |-> obj]

IsComplete(content) == \E o \in 1..MaxSaves : content = Complete(o)

\* tmp = path + ".tmp"
TmpPathDirect(path) == path

TmpPath(path) == path \o <<".tmp">>

InitRun ==
    /\ disk = <<>>
    /\ runNo = 0
    /\ phase = "idle"
    /\ args \in {a \in ArgSets : ~a.no_resume /\ ~a.force /\ ~a.validate_only}
    /\ rows \in InputLists
    /\ task = <<>>
    /\ sem = 0
    /\ waiters = <<>>
    /\ running = 0
    /\ all_candidates = <<>>
    /\ all_validated = <<>>
    /\ all_jalur_items = <<>>
    /\ outFiles = <<>>
    /\ firstOut = <<>>

\* no run in progress (the state of the orchestrator while a save is studied)
QuietRun ==
    /\ disk = <<>>
    /\ runNo = 0
    /\ phase = "idle"
    /\ args = NoArgs
    /\ rows = <<>>
    /\ task = <<>>
    /\ sem = 0
    /\ waiters = <<>>
    /\ running = 0
    /\ all_candidates = <<>>
    /\ all_validated = <<>>
    /\ all_jalur_items = <<>>
    /\ outFiles = <<>>
    /\ firstOut = <<>>

InitSave ==
    /\ fs = <<>>
    /\ savePc = "idle"
    /\ saveObj = 0
    /\ saveOld = <<>>
    /\ observed = {}

WriteFile(f, path, content) ==
    [p \in DOMAIN f \cup {path} |-> IF p = path THEN content ELSE f[p]]

\* open(tmp, "w"): the temporary file is created or truncated
SaveOpen ==
    /\ savePc = "idle"
    /\ saveObj < MaxSaves
    /\ saveObj' = saveObj + 1
    /\ saveOld' = IF Target \in DOMAIN fs THEN fs[Target] ELSE <<>>
    /\ fs' = WriteFile(fs, TmpPath(Target), <<>>)
    /\ savePc' = "writing"
    /\ UNCHANGED observed
    /\ UNCHANGED offSave

\* json.dump writes the text piece by piece
SaveWrite ==
    /\ savePc = "writing"
    /\ Len(fs[TmpPath(Target)]) < Chunks
    /\ fs' = WriteFile(fs, TmpPath(Target), Append(fs[TmpPath(Target)], saveObj))
    /\ UNCHANGED <<savePc, saveObj, saveOld, observed>>
    /\ UNCHANGED offSave

\* leaving the with block closes the file
SaveClose ==
    /\ savePc = "writing"
    /\ Len(fs[TmpPath(Target)]) = Chunks
    /\ savePc' = "closed"
    /\ UNCHANGED <<fs, saveObj, saveOld, observed>>
    /\ UNCHANGED offSave

\* os.replace(tmp, path)
SaveReplace ==
    /\ savePc = "closed"
    /\ fs' = [p \in (DOMAIN fs \cup {Target}) \ ({TmpPath(Target)} \ {Target}) |->
                 IF p = Target THEN fs[TmpPath(Target)] ELSE fs[p]]
    /\ savePc' = "idle"
    /\ UNCHANGED <<saveObj, saveOld, observed>>
    /\ UNCHANGED offSave

\* the process dies inside the save; whatever is on disk stays
SaveCrash ==
    /\ savePc \in {"writing", "closed"}
    /\ savePc' = "idle"
    /\ UNCHANGED <<fs, saveObj, saveOld, observed>>
    /\ UNCHANGED offSave

\* read_json(path) by any reader, at any moment
ReadTarget ==
    /\ Target \in DOMAIN fs
    /\ observed' = observed \cup {fs[Target]}
    /\ UNCHANGED <<fs, savePc, saveObj, saveOld>>
    /\ UNCHANGED offSave

(***************************************************************************)
(* The validate + extract loop of the fee pipeline (biaya-scraper run.py,  *)
(* process_one lines 148-392), one entity, with the embedded-asset         *)
(* fallback.                                                               *)
(***************************************************************************)
GateHtml == [url |-> "h/biaya", kind |-> "html"]
GatePdf == [url |-> "h/ukt.pdf", kind |-> "pdf"]
GateImage == [url |-> "h/ukt.png", kind |-> "image"]

GateCandLists ==
    { <<GateHtml>>, <<GatePdf>>, <<GateHtml, GatePdf>>, <<GateImage, GateHtml>> }

\* extract_links_and_assets over the fetched content, after the pdf/image and
\* same-site/allow-list filters, sorted by score, at most 6
AssetLinks(c) ==
    IF c.kind = "html"
    THEN << [url |-> "h/ukt.pdf", kind |-> "pdf"],
            [url |-> "cdn/ukt-tabel.png", kind |-> "image"] >>
    ELSE <<>>

GateIdle == [pc |-> "loop", j |-> 1, content |-> FALSE, verdict |-> "",
             asset_links |-> <<>>, averdict |-> ""]

InitGate ==
    /\ gArgs \in [validate_only : BOOLEAN]
    /\ gCands \in GateCandLists
    /\ gate = GateIdle
    /\ fee_validated = <<>>
    /\ all_fee_items = <<>>
    /\ gVerdicts = {}
    /\ gExtracted = {}

QuietGate ==
    /\ gArgs = [validate_only |-> FALSE]
    /\ gCands = <<>>
    /\ gate = GateIdle
    /\ fee_validated = <<>>
    /\ all_fee_items = <<>>
    /\ gVerdicts = {}
    /\ gExtracted = {}

GateCand == gCands[gate.j]

\* to_validated(c, verdict, reason, snippet).__dict__
ToValidated(c, verdict) == [url |-> c.url, kind |-> c.kind, verdict |-> verdict]

\* the for loop moves to the next candidate
GateNext(g) == [GateIdle EXCEPT !.j = g.j + 1]

\* lines 166, 185, 210: if verdict != "valid" or args.validate_only: continue
SkipExtractLax(verdict, a) == verdict = "invalid" \/ a.validate_only

SkipExtract(verdict, a) == verdict # "valid" \/ a.validate_only

FeeItems(src, n) == [i \in 1..n |-> [name |-> i, _source_url |-> src]]

\* lines 155-159, 230-234, 311-315: the candidate is fetched
GateFetch(res) ==
    /\ gate.pc = "loop"
    /\ gate.j <= Len(gCands)
    /\ CASE res = "ok" ->
              /\ gate' = [gate EXCEPT !.pc = "validate", !.content = TRUE]
              /\ UNCHANGED fee_validated
         [] res = "fail" ->
              IF GateCand.kind = "html"
              THEN \* text = "", the validator still runs
                   /\ gate' = [gate EXCEPT !.pc = "validate", !.content = FALSE]
                   /\ UNCHANGED fee_validated
              ELSE /\ fee_validated' =
                          Append(fee_validated, ToValidated(GateCand, "invalid"))
                   /\ gate' = GateNext(gate)
         [] res = "raise" ->
              \* lines 387-390: except Exception
              /\ fee_validated' =
                     Append(fee_validated, ToValidated(GateCand, "uncertain"))
              /\ gate' = GateNext(gate)
    /\ UNCHANGED <<gArgs, gCands, all_fee_items, gVerdicts, gExtracted>>
    /\ UNCHANGED offGate

\* lines 161-166, 236-247, 317-324: the validator's verdict is recorded
GateValidate(out) ==
    /\ gate.pc = "validate"
    /\ ~gate.content => out = "invalid"
    /\ IF out = "raise"
       THEN /\ fee_validated' =
                   Append(fee_validated, ToValidated(GateCand, "uncertain"))
            /\ gate' = GateNext(gate)
            /\ UNCHANGED gVerdicts
       ELSE /\ fee_validated' = Append(fee_validated, ToValidated(GateCand, out))
            /\ gVerdicts' = gVerdicts \cup {<<GateCand.url, out>>}
            /\ gate' = [gate EXCEPT
                   !.verdict = out,
                   !.pc = IF out # "valid" THEN "fallback" ELSE "decide",
                   !.asset_links = IF out # "valid" /\ gate.content
                                   THEN AssetLinks(GateCand) ELSE <<>>]
    /\ UNCHANGED <<gArgs, gCands, all_fee_items, gExtracted>>
    /\ UNCHANGED offGate

\* lines 177-186: one embedded asset is fetched and judged
GateAsset(res, out) ==
    /\ gate.pc = "fallback"
    /\ gate.asset_links # <<>>
    /\ LET au == Head(gate.asset_links).url
           rest == Tail(gate.asset_links)
       IN  CASE res = "fail" ->
                  /\ gate' = [gate EXCEPT !.asset_links = rest]
                  /\ UNCHANGED gVerdicts
             [] res = "raise" \/ (res = "ok" /\ out = "raise") ->
                  \* lines 207-208: the inner except ends the fallback
                  /\ gate' = [gate EXCEPT !.asset_links = <<>>, !.pc = "decide"]
                  /\ UNCHANGED gVerdicts
             [] res = "ok" /\ out # "raise" ->
                  /\ gVerdicts' = gVerdicts \cup {<<au, out>>}
                  /\ gate' = IF SkipExtract(out, gArgs)
                             THEN [gate EXCEPT !.asset_links = rest]
                             ELSE [gate EXCEPT !.averdict = out,
                                               !.pc = "asset_extract"]
    /\ UNCHANGED <<gArgs, gCands, fee_validated, all_fee_items, gExtracted>>
    /\ UNCHANGED offGate

\* lines 188-206: items are extracted from the asset just judged
GateAssetExtract(n, raises) ==
    /\ gate.pc = "asset_extract"
    /\ LET au == Head(gate.asset_links).url
       IN  /\ gExtracted' = gExtracted \cup {<<au, gate.averdict>>}
           /\ IF raises
              THEN /\ gate' = [gate EXCEPT !.asset_links = <<>>, !.pc = "decide"]
                   /\ UNCHANGED all_fee_items
              ELSE /\ gate' = [gate EXCEPT !.asset_links = Tail(@),
                                           !.pc = "fallback"]
                   /\ all_fee_items' = all_fee_items \o FeeItems(au, n)
    /\ UNCHANGED <<gArgs, gCands, fee_validated, gVerdicts>>
    /\ UNCHANGED offGate

\* the for loop over asset_links is over
GateFallbackEnd ==
    /\ gate.pc = "fallback"
    /\ gate.asset_links = <<>>
    /\ gate' = [gate EXCEPT !.pc = "decide"]
    /\ UNCHANGED <<gArgs, gCands, fee_validated, all_fee_items, gVerdicts,
                   gExtracted>>
    /\ UNCHANGED offGate

\* lines 210-211
GateDecide ==
    /\ gate.pc = "decide"
    /\ gate' = IF SkipExtract(gate.verdict, gArgs)
               THEN GateNext(gate)
               ELSE [gate EXCEPT !.pc = "extract"]
    /\ UNCHANGED <<gArgs, gCands, fee_validated, all_fee_items, gVerdicts,
                   gExtracted>>
    /\ UNCHANGED offGate

\* lines 213-227: items are extracted from the candidate itself
GateExtract(n, raises) ==
    /\ gate.pc = "extract"
    /\ gExtracted' = gExtracted \cup {<<GateCand.url, gate.verdict>>}
    /\ IF raises
       THEN /\ fee_validated' =
                   Append(fee_validated, ToValidated(GateCand, "uncertain"))
            /\ UNCHANGED all_fee_items
       ELSE /\ all_fee_items' = all_fee_items \o FeeItems(GateCand.url, n)
            /\ UNCHANGED fee_validated
    /\ gate' = GateNext(gate)
    /\ UNCHANGED <<gArgs, gCands, gVerdicts>>
    /\ UNCHANGED offGate

\* line 392: the entity is done
GateDone ==
    /\ gate.pc = "loop"
    /\ gate.j > Len(gCands)
    /\ gate' = [gate EXCEPT !.pc = "done"]
    /\ UNCHANGED <<gArgs, gCands, fee_validated, all_fee_items, gVerdicts,
                   gExtracted>>
    /\ UNCHANGED offGate

(***************************************************************************)
(* One validator or extractor call against the oracle                      *)
(* (biaya-scraper validator.py / extractor.py, jalur_pendaftaran-scraper   *)
(* validator.py).  A text is the set of patterns that match in it; an      *)
(* oracle outcome is what one call of generate_text / generate_with_bytes  *)
(* does.                                                                   *)
(***************************************************************************)
FeeFeatures == {"money", "fee", "prodi", "level"}
JalurFeatures == {"jalur", "date", "range", "prodi", "level"}

\* "exc"      the call raises            "none"     it returns None
\* "empty"    it returns ""              "blank"    it returns white space
\* "text"     prose, no JSON             "fenced"   ```json {"is_valid": true} ```
\* "true"     {"is_valid": true, ...}    "false"    {"is_valid": false, ...}
\* "mismatch" {"answer": "yes"}          "emptyobj" {}
\* "list"     [{"is_valid": true}]
\* "trailing" Result: {"is_valid": true} (see {note})
OracleOutcomes ==
    {"exc", "none", "empty", "blank", "text", "fenced", "true", "false",
     "mismatch", "emptyobj", "list", "trailing"}

ValidateTries == 3
ExtractTries == 4

\* validator.py 57 (tries: int = 3) and extractor.py 178, 191 (tries=4)
Tries(fn) == IF fn = "extract" THEN ExtractTries ELSE ValidateTries

\* biaya validator.py 31-38
_fast_local_gate(t) ==
    IF "money" \notin t THEN FALSE
    ELSE IF "fee" \in t THEN TRUE
    ELSE "prodi" \in t \/ "level" \in t

\* jalur validator.py 52-63
fast_local_gate(t) ==
    IF "jalur" \notin t THEN FALSE
    ELSE IF ~("date" \in t \/ "range" \in t) THEN FALSE
    ELSE TRUE

LocalGate(module, t) ==
    IF module = "biaya" THEN _fast_local_gate(t) ELSE fast_local_gate(t)

\* validator.py 71 / 70: if not fast_local_gate(text): return "invalid", ...
GateBlocksNever(c) == FALSE

GateBlocks(c) == c.fn = "validate_text" /\ ~LocalGate(c.module, c.text)

ValCalls ==
    { c \in [module : {"biaya"}, fn : {"validate_text", "validate_bytes", "extract"},
             text : SUBSET FeeFeatures, tries : {ValidateTries, ExtractTries}] :
        /\ c.tries = Tries(c.fn)
        /\ c.fn # "validate_text" => c.text = {} }
    \cup
    { c \in [module : {"jalur"}, fn : {"validate_text", "validate_bytes"},
             text : SUBSET JalurFeatures, tries : {1}] :
        c.fn # "validate_text" => c.text = {} }

InitVal ==
    /\ vCall \in ValCalls
    /\ vPc = "start"
    /\ vI = 0
    /\ vLast = "empty"
    /\ vLog = <<>>
    /\ vResult = ""

\* what str.strip() leaves nothing of
IsBlank(raw) == raw \in {"empty", "blank"}

\* last = fn(...) or "": the value one attempt leaves in last
AttemptValue(o) ==
    IF o = "exc" THEN "exc_text"        \* f"[EXC]{type(e).__name__}:{e}"
    ELSE IF o = "none" THEN "empty"
    ELSE o

\* range(tries)
MoreTriesInclusive(i, tries) == i <= tries

MoreTries(i, tries) == i < tries

\* the text of an outcome, as tokens: "w" is a run of other characters, "T",
\* "F" and "M" are the members "is_valid": true, "is_valid": false and
\* "answer": "yes"
Tokens(raw) ==
    CASE raw \in {"empty", "blank"} -> <<>>
      [] raw = "true" -> <<"{", "T", "}">>
      [] raw = "false" -> <<"{", "F", "}">>
      [] raw = "mismatch" -> <<"{", "M", "}">>
      [] raw = "emptyobj" -> <<"{", "}">>
      [] raw = "list" -> <<"[", "{", "T", "}", "]">>
      [] raw = "fenced" -> <<"w", "{", "T", "}", "w">>
      [] raw = "trailing" -> <<"w", "{", "T", "}", "w", "{", "w", "}">>
      [] OTHER -> <<"w">>

\* json.loads on tokens: the shape of the decoded value, "fail" when it raises
Decode(toks) ==
    IF toks = <<"{", "}">> THEN "emptyobj"
    ELSE IF Len(toks) = 3 /\ toks[1] = "{" /\ toks[3] = "}"
            /\ toks[2] \in {"T", "F", "M"}
    THEN (IF toks[2] = "T" THEN "true"
          ELSE IF toks[2] = "F" THEN "false" ELSE "mismatch")
    ELSE IF toks = <<"[", "{", "T", "}", "]">> THEN "list"
    ELSE "fail"

\* _JSON_OBJ_RE.search (validator.py 28): r"\{.*\}" with re.S is greedy, it
\* runs from the first "{" to the last "}" of the text; <<>> when no match
SearchObject(toks) ==
    LET opens == {i \in 1..Len(toks) : toks[i] = "{"}
        closes == {i \in 1..Len(toks) : toks[i] = "}"}
        first == CHOOSE i \in opens : \A k \in opens : i <= k
        last == CHOOSE i \in closes : \A k \in closes : i >= k
    IN  IF opens = {} \/ closes = {} THEN <<>>
        ELSE IF last < first THEN <<>>
        ELSE SubSeq(toks, first, last)

\* _parse_json_lenient (validator.py 41-54): "none" for None, else the shape
\* of the decoded value
_parse_json_lenient(raw) ==
    IF IsBlank(raw) THEN "none"
    ELSE IF Decode(Tokens(raw)) # "fail" THEN Decode(Tokens(raw))
    ELSE IF SearchObject(Tokens(raw)) = <<>> THEN "none"
    ELSE IF Decode(SearchObject(Tokens(raw))) # "fail"
    THEN Decode(SearchObject(Tokens(raw)))
    ELSE "none"

\* json.loads(raw) (jalur validator.py 83, 104): "fail" when it raises
json_loads(raw) == Decode(Tokens(raw))

\* biaya validator.py 75-82 / 87-94
BiayaVerdict(raw) ==
    LET obj == _parse_json_lenient(raw)
    IN  IF obj \in {"none", "emptyobj"} THEN "uncertain"    \* if not obj
        ELSE IF obj = "list" THEN "raised"                   \* obj.get
        ELSE IF obj = "true" THEN "valid"
        ELSE "invalid"                                       \* bool(None)

\* jalur validator.py 82-88 / 103-109; o is what the oracle call returned
JalurVerdict(o) ==
    LET obj == json_loads(o)
    IN  IF obj \in {"fail", "list"}
        THEN IF o = "none" THEN "raised"     \* raw[:200] on None
             ELSE "uncertain"
        ELSE IF obj = "true" THEN "valid"
        ELSE "invalid"

\* the call begins: the local gate of validate_text_with_gemini
ValStart ==
    /\ vPc = "start"
    /\ IF GateBlocks(vCall)
       THEN /\ vPc' = "returned"
            /\ vResult' = "invalid"
       ELSE /\ vPc' = IF vCall.module = "biaya" THEN "retry" ELSE "call"
            /\ UNCHANGED vResult
    /\ UNCHANGED <<vCall, vI, vLast, vLog>>
    /\ UNCHANGED offVal

\* _retry_call: one pass of the loop body (validator.py 59-66)
RetryAttempt(o) ==
    /\ vPc = "retry"
    /\ MoreTries(vI, vCall.tries)
    /\ vLog' = Append(vLog, o)
    /\ vLast' = AttemptValue(o)
    /\ IF o # "exc" /\ ~IsBlank(AttemptValue(o))
       THEN /\ vPc' = "parse"             \* return last
            /\ UNCHANGED vI
       ELSE /\ vI' = vI + 1               \* time.sleep, next i
            /\ UNCHANGED vPc
    /\ UNCHANGED <<vCall, vResult>>
    /\ UNCHANGED offVal

\* _retry_call: the loop is over (validator.py 67)
RetryExhausted ==
    /\ vPc = "retry"
    /\ ~MoreTries(vI, vCall.tries)
    /\ vPc' = "parse"
    /\ UNCHANGED <<vCall, vI, vLast, vLog, vResult>>
    /\ UNCHANGED offVal

\* the caller of _retry_call decodes what it got
BiayaParse ==
    /\ vPc = "parse"
    /\ LET r == IF vCall.fn = "extract" THEN "items" ELSE BiayaVerdict(vLast)
       IN  /\ vResult' = r
           /\ vPc' = IF r = "raised" THEN "raised" ELSE "returned"
    /\ UNCHANGED <<vCall, vI, vLast, vLog>>
    /\ UNCHANGED offVal

\* jalur validator.py 75-88 / 97-109: one call, no retry
JalurCall(o) ==
    /\ vPc = "call"
    /\ vLog' = Append(vLog, o)
    /\ vLast' = o
    /\ LET r == IF o = "exc" THEN "raised" ELSE JalurVerdict(o)
       IN  /\ vResult' = r
           /\ vPc' = IF r = "raised" THEN "raised" ELSE "returned"
    /\ UNCHANGED <<vCall, vI>>
    /\ UNCHANGED offVal

(***************************************************************************)
(* dedupe_candidates (jalur_pendaftaran-scraper utils.py 50-65), the same  *)
(* reduction as the end of crawl_site (biaya-scraper crawler.py 167-175)   *)
(***************************************************************************)
CandKey(c) == <<c.url, c.kind>>

\* position of the key in the dict, 0 when absent
SeenAt(d, k) ==
    IF \E i \in 1..Len(d) : CandKey(d[i]) = k
    THEN CHOOSE i \in 1..Len(d) : CandKey(d[i]) = k
    ELSE 0

\* c.score > seen[key].score
BeatsLower(c, kept) == c.score < kept.score

Beats(c, kept) == c.score > kept.score

\* one pass of the loop body: seen[key] = c when the key is new or c beats
\* the entry kept so far; a dict keeps its keys in insertion order
DedupeOne(d, c) ==
    LET i == SeenAt(d, CandKey(c))
    IN  IF i = 0 THEN Append(d, c)
        ELSE IF Beats(c, d[i]) THEN [d EXCEPT ![i] = c]
        ELSE d

RECURSIVE DedupeFrom(_, _)
DedupeFrom(d, cs) ==
    IF cs = <<>> THEN d ELSE DedupeFrom(DedupeOne(d, Head(cs)), Tail(cs))

\* list(seen.values())
dedupe_candidates(cs) == DedupeFrom(<<>>, cs)

\* the deduplicator run pass by pass over one collected list
MaxCollected == 3

CollectedCands ==
    [url : {"u/a", "u/b"}, kind : {"html", "pdf"}, score : {3, 7},
     source_page : {"u/p", "u/q"}]

\* the sequences over S of length at most n
RECURSIVE SeqsUpTo(_, _)
SeqsUpTo(S, n) ==
    IF n = 0 THEN {<<>>}
    ELSE LET shorter == SeqsUpTo(S, n - 1)
         IN  shorter \cup {Append(sq, x) : sq \in shorter, x \in S}

InitDedupe ==
    /\ dIn \in SeqsUpTo(CollectedCands, MaxCollected)
    /\ dI = 1
    /\ seen = <<>>
    /\ dPc = "loop"

\* utils.py 57-63: for c in candidates
DedupeStep ==
    /\ dPc = "loop"
    /\ dI <= Len(dIn)
    /\ seen' = DedupeOne(seen, dIn[dI])
    /\ dI' = dI + 1
    /\ UNCHANGED <<dIn, dPc>>
    /\ UNCHANGED offDedupe

\* utils.py 65: return list(seen.values())
DedupeReturn ==
    /\ dPc = "loop"
    /\ dI > Len(dIn)
    /\ dPc' = "returned"
    /\ UNCHANGED <<dIn, dI, seen>>
    /\ UNCHANGED offDedupe

(***************************************************************************)
(* crawl_site (biaya-scraper crawler.py 76-175) over one site.             *)
(* A URL is a record: host labels, page (0 is the root path), and the      *)
(* cosmetic parts a written URL can carry: trailing slash, fragment,       *)
(* query string.  Scores and priorities are counted in halves              *)
(* (0.5 is 1, 10.0 is 20).                                                 *)
(***************************************************************************)
MaxPage == 6
MaxFetches == 4
MaxCounter == 16

SiteHost == <<"kampus", "ac", "id">>

\* the strings of query keys and values, in Python's string order
StrOrder == <<"", "1", "2", "A", "a", "b", "menu", "utm_source">>

StrRank(x) == CHOOSE i \in 1..Len(StrOrder) : StrOrder[i] = x

\* str.LowerKey() on those strings
LowerKey(x) == IF x = "A" THEN "a" ELSE x

EmptyUrl == [host |-> <<>>, page |-> 0, slash |-> FALSE, frag |-> FALSE,
             query |-> <<>>]

U(p) == [host |-> SiteHost, page |-> p, slash |-> FALSE, frag |-> FALSE,
         query |-> <<>>]

WithSlash(u) == [u EXCEPT !.slash = TRUE]
WithFrag(u) == [u EXCEPT !.frag = TRUE]
WithUtm(u) == [u EXCEPT !.query = <<<<"utm_source", "1">>>> \o @]
OnHost(u, h) == [u EXCEPT !.host = h]

\* utils.py 31-37
drop_keys ==
    {"utm_source", "utm_medium", "utm_campaign", "utm_term", "utm_content",
     "fbclid", "gclid", "menu", "label"}

\* utils.py 40-49: the pairs of parse_qsl that are kept
KeptParam(kv) ==
    /\ kv[1] # ""
    /\ LowerKey(kv[1]) \notin drop_keys
    /\ kv[2] # ""

\* the sort key of utils.py 52, (kv[0].LowerKey(), kv[1]), compared as tuples
SortKeyLess(x, y) ==
    \/ StrRank(LowerKey(x[1])) < StrRank(LowerKey(y[1]))
    \/ LowerKey(x[1]) = LowerKey(y[1]) /\ StrRank(x[2]) < StrRank(y[2])

\* list.sort is stable: a pair goes after the pairs whose key is not greater
RECURSIVE InsertSorted(_, _)
InsertSorted(sorted, kv) ==
    IF sorted = <<>> THEN <<kv>>
    ELSE IF SortKeyLess(kv, Head(sorted)) THEN <<kv>> \o sorted
    ELSE <<Head(sorted)>> \o InsertSorted(Tail(sorted), kv)

RECURSIVE SortQuery(_)
SortQuery(qs) ==
    IF qs = <<>> THEN <<>>
    ELSE InsertSorted(SortQuery(SubSeq(qs, 1, Len(qs) - 1)), qs[Len(qs)])

\* utils.py 13-62: the fragment goes, tracking, unnamed and empty-valued
\* parameters go, the parameters left are sorted
normalize_url(u) ==
    IF u = EmptyUrl THEN EmptyUrl
    ELSE [u EXCEPT !.frag = FALSE,
                   !.query = SortQuery(SelectSeq(@, KeptParam))]

\* utils.py 119-143: then the trailing slash of a non-root path is dropped
canonical_for_visit(u) ==
    LET n == normalize_url(u)
    IN  IF n = EmptyUrl THEN EmptyUrl
        ELSE IF n.page # 0 /\ n.slash THEN [n EXCEPT !.slash = FALSE]
        ELSE n

\* uh.endswith("." + bh)
IsSubHost(uh, bh) ==
    /\ Len(uh) > Len(bh)
    /\ SubSeq(uh, Len(uh) - Len(bh) + 1, Len(uh)) = bh

\* utils.py 64-74
same_site(u, b) ==
    /\ u.host # <<>>
    /\ b.host # <<>>
    /\ (u.host = b.host \/ IsSubHost(u.host, b.host))

\* the words a URL carries: page 1 is ".../biaya-kuliah", page 2 ".../pmb",
\* page 4 ".../berita"
HasFeeWord(u) == u.page = 1
HasAdmissionWord(u) == u.page \in {1, 2}

\* crawler.py 20-22
_is_noise_url(u) == u.page = 4

\* crawler.py 24-30
_priority(u) ==
    IF HasFeeWord(u) THEN 20
    ELSE IF HasAdmissionWord(u) THEN 6
    ELSE 1

Link(u, kind, sc) == [url |-> u, kind |-> kind, hint |-> "", sc |-> sc]

\* what the fetch capability and extract_links_and_assets give for a page:
\* final_url, the page's signal score, the links and assets found
PageOf(site, u) ==
    CASE site = "chain" ->
           \* every page links to pages not seen before
           [final_url |-> u, page_sc |-> 0,
            found |-> IF u.page + 2 <= MaxPage
                      THEN << Link(WithUtm(U(u.page + 1)), "html", 0),
                              Link(WithSlash(U(u.page + 2)), "html", 0) >>
                      ELSE <<>>]
      [] site = "cycle" ->
           [final_url |-> u, page_sc |-> 10,
            found |-> IF u.page = 0
                      THEN << Link(WithSlash(U(3)), "html", 0),
                              Link(WithUtm(U(0)), "html", 0) >>
                      ELSE << Link(U(0), "html", 0),
                              Link(WithFrag(U(3)), "html", 4),
                              Link(OnHost(U(5), <<"lain", "com">>), "html", 9),
                              Link(OnHost(U(1), <<"pmb">> \o SiteHost), "html", 0) >>]
      [] site = "redirect" ->
           [final_url |-> IF u.page = 3 THEN WithSlash(U(5)) ELSE u,
            page_sc |-> 0,
            found |-> IF u.page = 0
                      THEN << Link(U(3), "html", 4), Link(U(5), "html", 0) >>
                      ELSE <<>>]
      [] site = "moved" ->
           \* the root answers under a cosmetic variant of its URL, page 3
           \* redirects to another host; both pages carry fee signals
           [final_url |-> IF u.page = 3 THEN OnHost(U(3), <<"lain", "com">>)
                          ELSE WithUtm(u),
            page_sc |-> 10,
            found |-> IF u.page = 0
                      THEN << Link(U(3), "html", 0) >>
                      ELSE <<>>]
      [] OTHER ->
           \* "ties": equal and different priorities, a noise page, one asset
           \* linked twice
           [final_url |-> u, page_sc |-> 0,
            found |-> IF u.page = 0
                      THEN << Link(U(3), "html", 4),
                              Link(U(4), "html", 0),
                              Link(U(6), "pdf", 6),
                              Link(U(5), "html", 4),
                              Link(WithFrag(U(6)), "pdf", 14),
                              Link(U(1), "html", 0) >>
                      ELSE <<>>]

Sites == {"chain", "cycle", "redirect", "moved", "ties"}

MaxPagesArgs == 0..3

CrawlInputs ==
    [official_website : {U(0), WithUtm(U(0)), EmptyUrl},
     max_pages : MaxPagesArgs, site : Sites]

\* crawler.py 83-90
InitCrawl ==
    /\ cIn \in CrawlInputs
    /\ q = {<<-200, 0, canonical_for_visit(cIn.official_website)>>}
    /\ counter = 0
    /\ visited = {}
    /\ candidates = <<>>
    /\ cPc = "loop"
    /\ cUrl = EmptyUrl
    /\ cPopped = <<>>
    /\ fetchLog = <<>>
    /\ best = <<>>

start == canonical_for_visit(cIn.official_website)

\* order of the heap's tuples (-prio, counter, url); counters are unique
TupleBeforeLifo(a, b) == a[1] < b[1] \/ (a[1] = b[1] /\ a[2] >= b[2])

TupleBefore(a, b) == a[1] < b[1] \/ (a[1] = b[1] /\ a[2] <= b[2])

\* heapq.heappop(q): the smallest tuple
HeapTop(h) == CHOOSE e \in h : \A x \in h : TupleBefore(e, x)

\* crawler.py 92: while q and len(visited) < max_pages
WithinBudgetInclusive(v, max_pages) == Cardinality(v) <= max_pages

WithinBudget(v, max_pages) == Cardinality(v) < max_pages

\* crawler.py 101, 113: visited.add(...)
VisitedAddNothing(v, u) == v

VisitedAdd(v, u) == v \cup {u}

\* crawler.py 134-165: one found link, st = [q, counter, candidates]
LinkStep(st, l, fr, page_sc) ==
    LET u == canonical_for_visit(l.url)
        is_feeish == HasFeeWord(u) \/ l.sc >= 4
        c == [url |-> u, kind |-> l.kind, source_page |-> fr.final_url,
              context_hint |-> l.hint, score |-> l.sc]
        st1 == IF is_feeish
               THEN [st EXCEPT !.candidates = Append(@, c)] ELSE st
        pr == _priority(u) + l.sc + (IF page_sc >= 10 THEN 3 ELSE 0)
    IN  IF u = EmptyUrl THEN st
        ELSE IF ~same_site(u, start) THEN st
        ELSE IF _is_noise_url(u) /\ ~HasFeeWord(u) /\ l.sc < 8 THEN st
        ELSE IF l.kind = "html" /\ u \notin st.visited
        THEN [st1 EXCEPT !.counter = @ + 1,
                         !.q = @ \cup {<<-pr, st1.counter + 1, u>>}]
        ELSE st1

RECURSIVE LinkLoop(_, _, _, _)
LinkLoop(st, found, fr, page_sc) ==
    IF found = <<>> THEN st
    ELSE LinkLoop(LinkStep(st, Head(found), fr, page_sc), Tail(found), fr, page_sc)

\* crawler.py 92-105: one heappop; the url is skipped or its fetch is issued
CrawlPop ==
    /\ cPc = "loop"
    /\ q # {} /\ WithinBudget(visited, cIn.max_pages)
    /\ LET e == HeapTop(q)
           url == canonical_for_visit(e[3])
       IN  /\ q' = q \ {e}
           /\ cPopped' = [entry |-> e, before |-> q]
           /\ IF url = EmptyUrl \/ url \in visited \/ ~same_site(url, start)
              THEN UNCHANGED <<visited, cPc, cUrl, fetchLog>>
              ELSE /\ Len(fetchLog) < MaxFetches
                   /\ visited' = VisitedAdd(visited, url)
                   /\ cUrl' = url
                   /\ cPc' = "fetch"
                   /\ fetchLog' = Append(fetchLog,
                          [url |-> url, returned |-> FALSE, ok |-> FALSE,
                           final_url |-> EmptyUrl])
    /\ UNCHANGED <<cIn, counter, candidates, best>>
    /\ UNCHANGED offCrawl

\* crawler.py 105-165: the fetch returns and the page is processed
CrawlFetched(ok) ==
    /\ cPc = "fetch"
    /\ LET fr == PageOf(cIn.site, cUrl)
           final_u == canonical_for_visit(fr.final_url)
           moved == final_u # EmptyUrl /\ final_u # cUrl
           visited1 == IF moved THEN VisitedAdd(visited, final_u) ELSE visited
           cands1 == IF fr.page_sc >= 8
                     THEN Append(candidates,
                              [url |-> fr.final_url, kind |-> "html",
                               source_page |-> fr.final_url,
                               context_hint |-> "page_signal_score",
                               score |-> fr.page_sc])
                     ELSE candidates
           st == LinkLoop([q |-> q, counter |-> counter, candidates |-> cands1,
                           visited |-> visited1],
                          fr.found, fr, fr.page_sc)
       IN  /\ fetchLog' = [fetchLog EXCEPT ![Len(fetchLog)] =
                              [url |-> cUrl, returned |-> TRUE, ok |-> ok,
                               final_url |-> fr.final_url]]
           /\ IF ~ok
              THEN UNCHANGED <<q, counter, visited, candidates>>
              ELSE /\ st.counter <= MaxCounter
                   /\ q' = st.q
                   /\ counter' = st.counter
                   /\ visited' = visited1
                   /\ candidates' = st.candidates
    /\ cPc' = "loop"
    /\ UNCHANGED <<cIn, cUrl, cPopped, best>>
    /\ UNCHANGED offCrawl

\* crawler.py 167-175: the loop is left, the candidates are deduplicated
CrawlReturned ==
    /\ cPc = "loop"
    /\ ~(q # {} /\ WithinBudget(visited, cIn.max_pages))
    /\ best' = dedupe_candidates(candidates)
    /\ cPc' = "returned"
    /\ UNCHANGED <<cIn, q, counter, visited, candidates, cUrl, cPopped, fetchLog>>
    /\ UNCHANGED offCrawl

(***************************************************************************)
(* Helper functions, one call each: the function named in hIn is applied   *)
(* to the arguments in hIn and its value is left in hOut.                  *)
(***************************************************************************)
MaxQuery == 2

QueryKeys == {"a", "A", "b", "utm_source", ""}
QueryValues == {"1", "2", ""}
QueryPairs == QueryKeys \X QueryValues

QueriesUpTo(n) == UNION {[1..k -> QueryPairs] : k \in 0..n}

UrlInputs(n) ==
    [host : {SiteHost}, page : {0, 1}, slash : BOOLEAN, frag : BOOLEAN,
     query : QueriesUpTo(n)]

HostInputs ==
    {SiteHost, <<"pmb">> \o SiteHost, <<"other", "ac", "id">>, <<>>}

Return(fn, value) ==
    /\ hPc = "call"
    /\ hIn.fn = fn
    /\ hOut' = value
    /\ hPc' = "returned"
    /\ UNCHANGED hIn
    /\ UNCHANGED offHelpers

CallCanonical ==
    hIn.fn = "canonical_for_visit"
    /\ Return("canonical_for_visit", canonical_for_visit(hIn.url))

CallSameSite ==
    hIn.fn = "same_site"
    /\ Return("same_site", same_site(hIn.url, hIn.base))

HasReturned(fn) == hPc = "returned" /\ hIn.fn = fn

(***************************************************************************)
(* narrow_fee_items (biaya-scraper extractor.py 47-93).  An item carries   *)
(* its position in the list, what the regexes of _looks_like_program_name  *)
(* find in its name, and its fixed_price (0: none).                        *)
(***************************************************************************)
MaxNarrowLen == 13

\* extractor.py 88
MinKept == 8
BadStreak == 5

\* extractor.py 64
max_items == 120

ProgramName == {"letters", "hint"}
NoiseName == {"letters", "noise"}
GenericName == {"letters", "generic"}
GenericLevelName == {"letters", "generic", "hint"}

FeeItem(i, name, price) == [id |-> i, name |-> name, fixed_price |-> price]

\* extractor.py 47-48
_has_price(it) == it.fixed_price # 0

\* extractor.py 50-62
_looks_like_program_name(n) ==
    /\ n # {}
    /\ "letters" \in n
    /\ "noise" \notin n
    /\ ~("generic" \in n /\ "hint" \notin n)

\* extractor.py 75-79
GoodItem(it) == _has_price(it) /\ _looks_like_program_name(it.name)

\* extractor.py 88
StopNowSooner(kept, bad_streak) ==
    Len(kept) >= MinKept /\ bad_streak >= BadStreak - 1

StopNow(kept, bad_streak) == Len(kept) >= MinKept /\ bad_streak >= BadStreak

\* extractor.py 74-89: the loop from item i on
RECURSIVE NarrowScan(_, _, _, _, _)
NarrowScan(items, i, kept, started, bad_streak) ==
    IF i > Len(items) THEN kept
    ELSE IF GoodItem(items[i])
         THEN NarrowScan(items, i + 1, Append(kept, items[i]), TRUE, 0)
    ELSE IF ~started THEN NarrowScan(items, i + 1, kept, started, bad_streak)
    ELSE IF StopNow(kept, bad_streak + 1) THEN kept
    ELSE NarrowScan(items, i + 1, kept, started, bad_streak + 1)

\* extractor.py 64-93
narrow_fee_itemsByPrice(items) ==
    IF items = <<>> THEN <<>>
    ELSE LET scanned == NarrowScan(items, 1, <<>>, FALSE, 0)
             kept == IF scanned = <<>> THEN SelectSeq(items, _has_price)
                     ELSE scanned
         IN  Take(kept, max_items)

narrow_fee_items(items) ==
    IF items = <<>> THEN <<>>
    ELSE LET scanned == NarrowScan(items, 1, <<>>, FALSE, 0)
             kept == IF scanned = <<>> THEN SelectSeq(items, GoodItem)
                     ELSE scanned
         IN  Take(kept, max_items)

\* the lists narrowed: runs of one kind of item, written (kind, length)
Runs(rs) ==
    LET total == [k \in 0..Len(rs) |->
                     IF k = 0 THEN 0
                     ELSE LET Sum[j \in 0..k] ==
                                  IF j = 0 THEN 0 ELSE Sum[j - 1] + rs[j][2]
                          IN  Sum[k]]
        RunOf(i) == CHOOSE k \in 1..Len(rs) : total[k - 1] < i /\ i <= total[k]
    IN  [i \in 1..total[Len(rs)] |->
            LET kind == rs[RunOf(i)][1]
            IN  FeeItem(i, IF kind = "good" THEN ProgramName
                           ELSE IF kind = "level" THEN GenericLevelName
                           ELSE IF kind = "noise" THEN NoiseName
                           ELSE IF kind = "generic" THEN GenericName
                           ELSE ProgramName,
                        IF kind = "noprice" THEN 0 ELSE 3500000)]

GoodBadLists(n) ==
    UNION {{[i \in 1..k |-> FeeItem(i, ProgramName, IF f[i] THEN 3500000 ELSE 0)] :
               f \in [1..k -> BOOLEAN]} : k \in 0..n}

NarrowInputs(n) ==
    GoodBadLists(n)
    \cup {Runs(<<<<"good", 10>>, <<"noprice", 6>>, <<"good", 2>>>>),
          Runs(<<<<"noise", 6>>, <<"level", 9>>, <<"generic", 3>>,
                 <<"noise", 2>>, <<"good", 1>>>>),
          Runs(<<<<"good", 7>>, <<"generic", 5>>, <<"level", 2>>,
                 <<"noise", 4>>, <<"good", 1>>, <<"noprice", 5>>,
                 <<"good", 1>>>>),
          Runs(<<<<"noise", 3>>, <<"generic", 2>>>>),
          Runs(<<<<"good", max_items + 1>>>>),
          Runs(<<<<"good", max_items - 1>>, <<"noise", 4>>, <<"good", 3>>>>)}

CallNarrow ==
    hIn.fn = "narrow_fee_items"
    /\ Return("narrow_fee_items", narrow_fee_items(hIn.items))

(***************************************************************************)
(* _normalize_item (biaya-scraper extractor.py 137-174).  A decoded JSON   *)
(* value is a record: t is its type, v its content (the characters of a    *)
(* string, the number, the elements of an array, the members of an object  *)
(* as a function from keys).                                               *)
(***************************************************************************)
JNull == [t |-> "null", v |-> <<>>]
JStr(chars) == [t |-> "str", v |-> chars]
JNum(n) == [t |-> "num", v |-> n]
JList(xs) == [t |-> "list", v |-> xs]
JDict(members) == [t |-> "dict", v |-> members]

\* an exception leaves the function
Raised == [t |-> "raised", v |-> <<>>]

\* dict.get(key): None when the key is absent
Get(obj, key) == IF key \in DOMAIN obj.v THEN obj.v[key] ELSE JNull

\* Python truth value of a decoded value
Falsy(j) ==
    \/ j.t = "null"
    \/ j.t = "str" /\ j.v = <<>>
    \/ j.t = "num" /\ j.v = 0
    \/ j.t = "list" /\ j.v = <<>>
    \/ j.t = "dict" /\ DOMAIN j.v = {}

\* (value or ""): the value itself when it is truthy
OrEmpty(j) == IF Falsy(j) THEN JStr(<<>>) ELSE j

\* extractor.py 137-148 on a string of digits and other characters
RECURSIVE DigitsValue(_, _)
DigitsValue(chars, acc) ==
    IF chars = <<>> THEN acc
    ELSE IF Head(chars) \in {"0", "1"}
         THEN DigitsValue(Tail(chars),
                          10 * acc + (IF Head(chars) = "1" THEN 1 ELSE 0))
    ELSE DigitsValue(Tail(chars), acc)

_digits_to_int(j) ==
    LET IsDigit(c) == c \in {"0", "1"}
    IN  IF j.t = "str" /\ SelectSeq(Strip(j.v, Spaces), IsDigit) # <<>>
        THEN JNum(DigitsValue(j.v, 0))
        ELSE j

\* extractor.py 167: (obj.get("slug") or "").strip() or slugify(name)
ItemSlugUnstripped(raw_slug, name) ==
    IF raw_slug # <<>> THEN raw_slug ELSE slugify(name)

ItemSlug(raw_slug, name) ==
    IF Strip(raw_slug, Spaces) # <<>> THEN Strip(raw_slug, Spaces)
    ELSE slugify(name)

\* extractor.py 151-174; .strip() on a truthy value that is not a string
\* raises AttributeError
_normalize_item(x) ==
    LET obj == IF x.t = "dict" THEN x ELSE JDict([k \in {"name"} |-> x])
        name == OrEmpty(Get(obj, "name"))
        slug == OrEmpty(Get(obj, "slug"))
    IN  IF x.t \notin {"dict", "str"} THEN JNull
        ELSE IF x.t = "str" /\ Strip(x.v, Spaces) = <<>> THEN JNull
        ELSE IF name.t # "str" THEN Raised
        ELSE IF Strip(name.v, Spaces) = <<>> THEN JNull
        ELSE IF slug.t # "str" THEN Raised
        ELSE JDict([k \in DOMAIN obj.v \cup {"slug"} |->
                       IF k = "slug"
                       THEN JStr(ItemSlug(slug.v, Strip(name.v, Spaces)))
                       ELSE IF k = "fixed_price" THEN _digits_to_int(obj.v[k])
                       ELSE IF k = "name" /\ x.t = "str"
                            THEN JStr(Strip(x.v, Spaces))
                       ELSE obj.v[k]])

\* the raw items normalized
NameValues ==
    {JNull, JStr(<<>>), JStr(<<" ">>), JStr(<<"a", "b">>),
     JStr(<<"A", "b", " ">>), JNum(1)}

SlugValues == {JStr(<<>>), JStr(<<" ">>), JStr(<<"x", "-", "y">>)}

PriceValues == {JNum(1), JStr(<<"1", "x", "0">>)}

Members(keys, name, slug, price) ==
    [k \in keys |-> IF k = "name" THEN name
                    ELSE IF k = "slug" THEN slug
                    ELSE IF k = "fixed_price" THEN price
                    ELSE JStr(<<"1", "0">>)]

RawDicts ==
    {JDict(Members(keys, n, sl, p)) :
        keys \in SUBSET {"name", "slug", "fixed_price"},
        n \in NameValues, sl \in SlugValues, p \in PriceValues}

RawItems ==
    RawDicts \cup {JStr(<<"a", "b">>), JStr(<<" ">>), JNum(1), JNull}

CallNormalize ==
    hIn.fn = "_normalize_item"
    /\ Return("_normalize_item",
              <<_normalize_item(hIn.x), _normalize_item(hIn.y)>>)

(***************************************************************************)
(* The extractors: extract_fee_items_from_text (biaya-scraper extractor.py *)
(* 110-134, 177-187) and extract_jalur_items_from_text                     *)
(* (jalur_pendaftaran-scraper extractor.py 33-57).  The oracle's response  *)
(* is a text: "json" when json.loads decodes it to data, "embedded" when   *)
(* it is not JSON but its {...} part decodes to data, "garbage" when       *)
(* nothing in it decodes, "empty" when it is blank.                        *)
(***************************************************************************)
MaxParsedLen == 2

Response(kind, data) == [kind |-> kind, data |-> data]

\* biaya extractor.py 110-123: None when nothing decodes
extractor_parse_json_lenient(raw) ==
    IF raw.kind \in {"json", "embedded"} THEN raw.data ELSE JNull

\* biaya extractor.py 126-134
_coerce_items(data) ==
    IF data.t = "list" THEN data.v
    ELSE IF data.t = "dict"
    THEN IF Get(data, "items").t = "list" THEN Get(data, "items").v
         ELSE IF Get(data, "data").t = "list" THEN Get(data, "data").v
         ELSE IF Get(data, "results").t = "list" THEN Get(data, "results").v
         ELSE <<>>
    ELSE <<>>

\* the loop that keeps what a per-item step returns; an exception of a step
\* leaves the function
Collect(steps) ==
    LET Kept(j) == j.t = "dict"
    IN  IF \E i \in 1..Len(steps) : steps[i] = Raised THEN Raised
        ELSE JList(SelectSeq(steps, Kept))

\* biaya extractor.py 177-187
extract_fee_items_from_text(raw) ==
    LET items_any == _coerce_items(extractor_parse_json_lenient(raw))
    IN  Collect([i \in 1..Len(items_any) |-> _normalize_item(items_any[i])])

\* jalur extractor.py 39-55: one pass of the loop body
JalurItem(obj) ==
    LET name == OrEmpty(Get(obj, "name"))
        slug == OrEmpty(Get(obj, "slug"))
    IN  IF obj.t # "dict" THEN JNull
        ELSE IF name.t # "str" THEN Raised
        ELSE IF Strip(name.v, Spaces) = <<>> THEN JNull
        ELSE IF Falsy(Get(obj, "start_date")) /\ Falsy(Get(obj, "end_date"))
             THEN JNull
        ELSE IF slug.t # "str" THEN Raised
        ELSE JDict([k \in DOMAIN obj.v \cup {"slug"} |->
                       IF k = "slug"
                       THEN JStr(ItemSlug(slug.v, Strip(name.v, Spaces)))
                       ELSE obj.v[k]])

\* jalur extractor.py 33-57: json.loads raises on a text that is not JSON
extract_jalur_items_from_text(raw) ==
    IF raw.kind # "json" THEN Raised
    ELSE IF raw.data.t # "list" THEN JList(<<>>)
    ELSE Collect([i \in 1..Len(raw.data.v) |-> JalurItem(raw.data.v[i])])

\* the responses extracted from
ParsedItems ==
    {JDict(Members({"name", "fixed_price", "start_date"}, JStr(<<"a", "b">>),
                   JNull, JStr(<<"1", "x", "0">>))),
     JDict(Members({"name", "slug"}, JStr(<<"A", "b", " ">>),
                   JStr(<<"x", "-", "y">>), JNull)),
     JDict(Members({"name", "start_date"}, JNum(1), JNull, JNull)),
     JDict(Members({"slug", "start_date"}, JNull, JStr(<<"x", "-", "y">>),
                   JNull)),
     JStr(<<"a", "b">>),
     JNum(1)}

ParsedLists(n) == UNION {{JList(xs) : xs \in [1..k -> ParsedItems]} : k \in 0..n}

WrapKeys == {"items", "data", "results", "rows"}

Wrapped(key, list) == JDict([k \in {key} |-> list])

Responses(n) ==
    {Response("json", l) : l \in ParsedLists(n)}
    \cup {Response("json", Wrapped(k, l)) :
             k \in WrapKeys, l \in ParsedLists(n)}
    \cup {Response("embedded", Wrapped(k, l)) :
             k \in WrapKeys, l \in ParsedLists(1)}
    \cup {Response("json", j) : j \in {JStr(<<"a", "b">>), JNum(1), JNull}}
    \cup {Response("garbage", JNull), Response("empty", JNull)}

extract_items(module, raw) ==
    IF module = "biaya" THEN extract_fee_items_from_text(raw)
    ELSE extract_jalur_items_from_text(raw)

CallExtract ==
    hIn.fn = "extract_items"
    /\ Return("extract_items", extract_items(hIn.module, hIn.raw))

(***************************************************************************)
(* extract_links_and_assets (biaya-scraper extract_assets.py 82-208) and   *)
(* safe_join (utils.py 76-116).  A written href/src is a record: its form  *)
(* (what it starts with or holds), the URL it names, and the extension of  *)
(* that URL.  An element of the page is its tag, its href/src, and whether *)
(* its hint holds a noise keyword and no fee word.  An entry of the result *)
(* is (url, kind).                                                         *)
(***************************************************************************)
MaxGoodLinks == 2

\* utils.py 8
_BAD_SCHEMES == {"mailto", "tel", "javascript", "data", "blob"}

Href(form, url, ext) == [form |-> form, url |-> url, ext |-> ext]

\* utils.py 76-116
safe_join(base, href) ==
    IF href.form = "blank" THEN EmptyUrl
    ELSE IF href.form \in _BAD_SCHEMES \/ href.form = "anchor" THEN EmptyUrl
    ELSE IF href.form = "shortcode" THEN EmptyUrl
    ELSE IF href.form = "bracket" THEN EmptyUrl
    ELSE LET joined == IF href.form = "relative"
                       THEN OnHost(href.url, base.host) ELSE href.url
             n == normalize_url(joined)
         IN  IF n = EmptyUrl THEN EmptyUrl
             ELSE IF href.form \notin {"relative", "http", "https"}
                     \/ n.host = <<>>
                  THEN EmptyUrl
             ELSE n

\* the extension found in u.lower(): none in the empty string
ExtOf(u, href) == IF u = EmptyUrl THEN "" ELSE href.ext

Entry(u, kind) == [url |-> u, kind |-> kind]

\* extract_assets.py 91-196: what one element appends to out
EntriesOf(page_url, feeish, el) ==
    LET href == el.href
        u == safe_join(page_url, href)
        ext == ExtOf(u, href)
    IN  IF href.form = "blank" THEN <<>>
        ELSE IF el.tag = "a"
        THEN IF href.form \in {"mailto", "tel", "javascript"} THEN <<>>
             ELSE IF el.noise THEN <<>>
             ELSE <<Entry(u, IF ext = "pdf" THEN "pdf"
                             ELSE IF ext = "png" THEN "image" ELSE "html")>>
        ELSE IF el.tag = "iframe"
        THEN <<Entry(u, IF ext = "pdf" THEN "pdf" ELSE "html")>>
        ELSE IF el.tag = "img"
        THEN IF el.noise /\ ~feeish THEN <<>>
             ELSE IF ext # "png" THEN <<>>
             ELSE <<Entry(u, "image")>>
        ELSE IF ext = "" THEN <<>>                 \* source, [style]
        ELSE <<Entry(u, IF ext = "pdf" THEN "pdf" ELSE "image")>>

\* extract_assets.py 198-208: normalize_url, then the first entry of each
\* (url, kind)
RECURSIVE Uniq(_, _)
Uniq(out, uniq) ==
    IF out = <<>> THEN uniq
    ELSE LET e == Entry(normalize_url(Head(out).url), Head(out).kind)
         IN  IF \E i \in 1..Len(uniq) : uniq[i] = e
             THEN Uniq(Tail(out), uniq)
             ELSE Uniq(Tail(out), Append(uniq, e))

RECURSIVE Flatten(_)
Flatten(ss) == IF ss = <<>> THEN <<>> ELSE Head(ss) \o Flatten(Tail(ss))

\* the passes over the page run tag by tag: a, iframe/embed/object, source,
\* img, [style]
TagOrder == <<"a", "iframe", "source", "img", "style">>

extract_links_and_assets(page_url, page) ==
    LET Pass(tag) ==
            LET OfTag(el) == el.tag = tag
                els == SelectSeq(page.els, OfTag)
            IN  Flatten([i \in 1..Len(els) |->
                            EntriesOf(page_url, page.feeish, els[i])])
    IN  Uniq(Flatten([t \in 1..Len(TagOrder) |-> Pass(TagOrder[t])]), <<>>)

\* the pages read
Hrefs ==
    {Href("relative", U(1), ""), Href("relative", WithFrag(U(2)), "pdf"),
     Href("http", U(3), "png"), Href("ftp", U(1), "pdf"),
     Href("mailto", U(1), ""), Href("javascript", U(1), ""),
     Href("data", U(1), "png"), Href("anchor", U(0), ""),
     Href("shortcode", U(1), ""), Href("bracket", EmptyUrl, ""),
     Href("blank", EmptyUrl, "")}

Element(tag, href, noise) == [tag |-> tag, href |-> href, noise |-> noise]

Elements ==
    {Element(tag, h, FALSE) : tag \in {"a", "iframe", "source", "img", "style"},
                              h \in Hrefs}
    \cup {Element(tag, h, TRUE) : tag \in {"a", "img"}, h \in Hrefs}

GoodLinks ==
    {Element("a", Href("relative", U(1), ""), FALSE),
     Element("a", Href("relative", WithFrag(U(2)), "pdf"), FALSE),
     Element("img", Href("http", U(3), "png"), FALSE)}

Pages(n) ==
    LET goods == UNION {[1..k -> GoodLinks] : k \in 0..n}
    IN  [feeish : BOOLEAN,
         els : goods \cup UNION {{InsertAt(g, i, el) :
                                     i \in 0..Len(g), el \in Elements} :
                                 g \in goods}]

CallExtractLinks ==
    hIn.fn = "extract_links_and_assets"
    /\ Return("extract_links_and_assets",
              extract_links_and_assets(U(0), hIn.page))

\* the calls studied
HelperCalls(nq, n, np, ng) ==
    [fn : {"canonical_for_visit"}, url : UrlInputs(nq)]
    \cup [fn : {"same_site"}, url : {OnHost(U(1), h) : h \in HostInputs},
          base : {OnHost(U(0), h) : h \in HostInputs}]
    \cup [fn : {"narrow_fee_items"}, items : NarrowInputs(n)]
    \cup [fn : {"_normalize_item"}, x : RawItems, y : RawItems]
    \cup [fn : {"extract_items"}, module : {"biaya", "jalur"}, raw : Responses(np)]
    \cup [fn : {"extract_links_and_assets"}, page : Pages(ng)]

InitHelpers ==
    /\ hIn \in HelperCalls(MaxQuery, MaxNarrowLen, MaxParsedLen, MaxGoodLinks)
    /\ hPc = "call"
    /\ hOut = <<>>

(***************************************************************************)
(* crawl_site of the admission pipeline (jalur_pendaftaran-scraper         *)
(* crawler.py 106-259) over one site.  The pages of the site: 0 is the     *)
(* homepage, 1 ".../pmb", 2 ".../pmb/jadwal", 3 ".../akademik",            *)
(* 4 ".../berita", 5 ".../pmb/brosur.pdf".  fetch_with_menu(url) gives the *)
(* fetch result of the page and the menu links of the input.               *)
(***************************************************************************)
MaxPagesAdm == 2

\* crawler.py 46
MAX_ADMISSION_DEPTH == 5

\* jalur utils.py 7-17
jalur_normalize_url(u, keep_fragment) ==
    LET NotTracking(kv) ==
            LowerKey(kv[1]) \notin {"utm_source", "utm_medium", "utm_campaign",
                                    "utm_term", "utm_content", "fbclid", "gclid"}
    IN  IF u = EmptyUrl THEN u
        ELSE [u EXCEPT !.frag = IF keep_fragment THEN @ ELSE FALSE,
                       !.query = SelectSeq(@, NotTracking)]

\* jalur utils.py 31-38
is_related_domain(u, b) ==
    \/ u.host = b.host
    \/ b.host # <<>> /\ IsSubHost(u.host, b.host)
    \/ u.host # <<>> /\ IsSubHost(b.host, u.host)

\* crawler.py 53-55: "pmb" or "jadwal" in the URL
is_admission_entry(u) == u.page \in {1, 2, 5}

\* crawler.py 58-65: "berita" in the URL
hard_reject(u) == u.page = 4

\* crawler.py 79-87: 2 per entry keyword, 5 more for "pmb"
admission_score(u) ==
    IF u.page \in {1, 5} THEN 7 ELSE IF u.page = 2 THEN 9 ELSE 0

\* the paths under path + "/"
Under(p) == IF p = 1 THEN {1, 2, 5} ELSE {p}

\* crawler.py 160-174
admission_prefixes(rs) == {rs[i].page : i \in {k \in 1..Len(rs) : rs[k].page # 0}}
admission_hosts(rs) == {rs[i].host : i \in {k \in 1..Len(rs) : rs[k].host # <<>>}}
lock_to_admission(rs) == admission_prefixes(rs) # {}

\* crawler.py 67-77
_in_admission_subtree(u, prefixes, hosts) ==
    \/ u.host \in hosts
    \/ \E pref \in prefixes : u.page \in Under(pref)

\* what extract_links_and_assets finds on a fetched page: (u, kind, score)
Found(site, u) ==
    LET L(v, kind) == [url |-> v, kind |-> kind, score |-> 0]
    IN  IF u.host # SiteHost THEN <<>>
        ELSE IF u.page = 0
        THEN (IF site = "bare" THEN <<L(U(3), "html"), L(U(4), "html")>>
              ELSE IF site = "deep" THEN <<L(U(3), "html")>>
              ELSE <<L(U(3), "html"), L(U(1), "html"),
                     L(WithFrag(U(2)), "html")>>)
        ELSE IF u.page = 1
        THEN <<L(U(2), "html"), L(U(5), "pdf")>>
        ELSE IF u.page = 2 THEN <<L(U(1), "html"), L(U(0), "html")>>
        ELSE IF u.page = 3
        THEN (IF site = "deep" THEN <<L(U(1), "html")>> ELSE <<L(U(0), "html")>>)
        ELSE <<>>

\* extract_candidate_sections: the schedule page holds one section
Sections(u) == IF u.page = 2 THEN 1 ELSE 0

AdmInputs ==
    [official_website : {U(0), WithFrag(U(0))},
     max_pages : 1..MaxPagesAdm,
     site : {"bare", "deep", "links"},
     menu_links : {<<>>, <<U(1)>>, <<U(4)>>, <<U(2), WithUtm(U(1))>>,
                   <<OnHost(U(1), <<"other", "ac", "id">>)>>}]

aStart == jalur_normalize_url(aIn.official_website, FALSE)

\* crawler.py 113-115
InitAdm ==
    /\ aIn \in AdmInputs
    /\ aPc = "menu"
    /\ roots = <<>>
    /\ aQ = <<>>
    /\ aVisited = {}
    /\ aCandidates = <<>>
    /\ aBest = <<>>

\* crawler.py 120-131: the entry points named by the menu
RootsFromMenu ==
    /\ aPc = "menu"
    /\ LET IsRoot(u) == is_related_domain(u, aStart) /\ is_admission_entry(u)
           kept == SelectSeq(aIn.menu_links, IsRoot)
       IN  /\ roots' = [i \in 1..Len(kept) |-> jalur_normalize_url(kept[i], FALSE)]
           /\ aPc' = IF kept # <<>> THEN "seed" ELSE "homepage"
    /\ UNCHANGED <<aIn, aQ, aVisited, aCandidates, aBest>>
    /\ UNCHANGED offAdm

\* scored.sort(reverse=True): by score, then by URL, from the highest
RECURSIVE SortedDesc(_)
SortedDesc(S) ==
    IF S = {} THEN <<>>
    ELSE LET top == CHOOSE x \in S :
                        \A y \in S : \/ x[1] > y[1]
                                     \/ x[1] = y[1] /\ x[2].page >= y[2].page
         IN  <<top>> \o SortedDesc(S \ {top})

\* crawler.py 131-153: the entry points among the links of the homepage
RootsFromHomepage(ok) ==
    /\ aPc = "homepage"
    /\ IF ~ok
       THEN /\ aPc' = "returned"                  \* return []
            /\ UNCHANGED roots
       ELSE LET found == Found(aIn.site, aStart)
                scored == {<<admission_score(found[i].url),
                             jalur_normalize_url(found[i].url, FALSE)>> :
                              i \in {k \in 1..Len(found) :
                                        admission_score(found[k].url) > 0}}
                sorted == SortedDesc(scored)
                top == [i \in 1..Len(Take(sorted, 3)) |-> sorted[i][2]]
            IN  \* line 153 assigns [start] to top, not to roots
                /\ roots' = IF top # <<>> THEN top ELSE roots
                /\ aPc' = "seed"
    /\ UNCHANGED <<aIn, aQ, aVisited, aCandidates, aBest>>
    /\ UNCHANGED offAdm

\* crawler.py 156-157: admission_roots = roots[:3], the deque of (root, 0)
SeedQueue ==
    /\ aPc = "seed"
    /\ roots' = Take(roots, 3)
    /\ aQ' = [i \in 1..Len(Take(roots, 3)) |-> <<roots[i], 0>>]
    /\ aPc' = "bfs"
    /\ UNCHANGED <<aIn, aVisited, aCandidates, aBest>>
    /\ UNCHANGED offAdm

AdmCandidate(u, kind, score, page) ==
    [url |-> u, kind |-> kind, score |-> score, source_page |-> page]

\* crawler.py 219-252: the candidates and the queue entries of the links
RECURSIVE LinkAnalysis(_, _, _, _, _)
LinkAnalysis(found, depth, page, vis, acc) ==
    IF found = <<>> THEN acc
    ELSE LET u == jalur_normalize_url(Head(found).url, TRUE)
             rest == Tail(found)
             cands == IF is_admission_entry(u)
                      THEN Append(acc.cands,
                                  AdmCandidate(u, Head(found).kind,
                                               Head(found).score, page))
                      ELSE acc.cands
             queue == IF /\ Head(found).kind = "html"
                         /\ u \notin vis
                         /\ \/ ~lock_to_admission(roots)
                            \/ _in_admission_subtree(
                                   u, admission_prefixes(roots),
                                   admission_hosts(roots))
                      THEN Append(acc.queue, <<u, depth + 1>>)
                      ELSE acc.queue
         IN  IF ~is_related_domain(u, aStart) \/ hard_reject(u)
             THEN LinkAnalysis(rest, depth, page, vis, acc)
             ELSE LinkAnalysis(rest, depth, page, vis,
                               [cands |-> cands, queue |-> queue])

\* crawler.py 178-252: one pass of the loop body
BfsVisit(ok) ==
    /\ aPc = "bfs"
    /\ aQ # <<>> /\ Cardinality(aVisited) < aIn.max_pages
    /\ LET url == Head(aQ)[1]
           depth == Head(aQ)[2]
           skipped ==
               \/ url \in aVisited
               \/ depth > MAX_ADMISSION_DEPTH
               \/ ~is_related_domain(url, aStart)
               \/ hard_reject(url)
               \/ /\ lock_to_admission(roots)
                  /\ ~_in_admission_subtree(url, admission_prefixes(roots),
                                            admission_hosts(roots))
           vis == aVisited \cup {url}
           sect == [i \in 1..Sections(url) |-> AdmCandidate(url, "html", 90, url)]
           res == LinkAnalysis(Found(aIn.site, url), depth, url, vis,
                               [cands |-> aCandidates \o sect,
                                queue |-> Tail(aQ)])
       IN  IF skipped
           THEN /\ aQ' = Tail(aQ)
                /\ UNCHANGED <<aVisited, aCandidates>>
           ELSE IF ~ok
           THEN /\ aQ' = Tail(aQ)
                /\ aVisited' = vis
                /\ UNCHANGED aCandidates
           ELSE /\ aQ' = res.queue
                /\ aVisited' = vis
                /\ aCandidates' = res.cands
    /\ UNCHANGED <<aIn, aPc, roots, aBest>>
    /\ UNCHANGED offAdm

\* crawler.py 256-259
AdmReturn ==
    /\ aPc = "bfs"
    /\ ~(aQ # <<>> /\ Cardinality(aVisited) < aIn.max_pages)
    /\ aBest' = dedupe_candidates(aCandidates)
    /\ aPc' = "returned"
    /\ UNCHANGED <<aIn, roots, aQ, aVisited, aCandidates>>
    /\ UNCHANGED offAdm

(***************************************************************************)
(* GeminiJSON._extract (prodi-scraper app/gemini_client.py 101-138) with   *)
(* the model list of __init__ (42-52).  What a call of _call brings back   *)
(* is a response with a text, or an exception.  A text is written as       *)
(* whether it is fenced with backticks, whether the fence is labelled      *)
(* "json", and its body: "D" a non-empty object, "Djson" a non-empty       *)
(* object that holds the letters json, "{}", "[]" or "garbage".            *)
(***************************************************************************)
MaxRetriesGem == 2

\* config.py 9 and the names of gemini_client.py 49-51
GEMINI_MODEL == "gemini-2.5-flash"
FallbackModels == <<"gemini-2.0-flash-lite", "gemini-1.5-flash", "gemini-1.5-pro">>

\* gemini_client.py 45-52
models(primary) == <<primary>> \o FallbackModels

NoText == [fenced |-> FALSE, labelled |-> FALSE, body |-> ""]
Text(fenced, labelled, body) ==
    [fenced |-> fenced, labelled |-> labelled, body |-> body]

GemTexts ==
    {NoText}
    \cup {Text(FALSE, FALSE, b) : b \in {"D", "Djson", "{}", "[]", "garbage"}}
    \cup {Text(TRUE, l, b) : l \in BOOLEAN, b \in {"D", "Djson", "{}", "garbage"}}

\* gemini_client.py 22-32: the first "json" of a fenced text is removed,
\* the label when there is one and otherwise letters of the body
_safe_json_loads(s) ==
    IF s.body = "" THEN "{}"
    ELSE LET body == IF s.fenced /\ ~s.labelled /\ s.body = "Djson"
                     THEN "Daltered" ELSE s.body
         IN  IF body = "garbage" THEN "{}" ELSE body

\* gemini_client.py 119: isinstance(data, dict) and data
NonEmptyDict(data) == data \in {"D", "Djson", "Daltered"}

GemErrors == {"busy", "server_error", "error"}

Brought(text, err) == [text |-> text, err |-> err]

InitGem ==
    /\ gmIn \in [primary : {GEMINI_MODEL, "gemini-1.5-flash"},
                 max_retries : 0..MaxRetriesGem]
    /\ gmPc = "loop"
    /\ gmModel = 1
    /\ gmAttempt = 1
    /\ gmCalls = <<>>
    /\ gmLast = Brought(NoText, "")
    /\ gmUsage = 0
    /\ gmOut = ""

GemModels == models(gmIn.primary)

\* the loops of lines 110-111 stand before a call
GemCanCall ==
    /\ gmPc = "loop"
    /\ gmModel <= Len(GemModels)
    /\ gmAttempt <= gmIn.max_retries

\* line 111: the next attempt of the same model, or the next model
GemNextAttempt ==
    IF gmAttempt < gmIn.max_retries
    THEN /\ gmAttempt' = gmAttempt + 1
         /\ gmModel' = gmModel
    ELSE /\ gmAttempt' = 1
         /\ gmModel' = gmModel + 1

\* line 132, 135: break
GemNextModel ==
    /\ gmAttempt' = 1
    /\ gmModel' = gmModel + 1

\* lines 113-122: the call returns a response
GemResponse(text) ==
    /\ GemCanCall
    /\ gmCalls' = Append(gmCalls, GemModels[gmModel])
    /\ gmLast' = Brought(text, "")
    /\ gmUsage' = gmUsage + 1
    /\ LET data == _safe_json_loads(text)
       IN  IF NonEmptyDict(data)
           THEN /\ gmOut' = data
                /\ gmPc' = "returned"
                /\ UNCHANGED <<gmModel, gmAttempt>>
           ELSE /\ GemNextAttempt
                /\ UNCHANGED <<gmOut, gmPc>>
    /\ UNCHANGED gmIn
    /\ UNCHANGED offGem

\* lines 124-135: the call raises
GemRaise(err) ==
    /\ GemCanCall
    /\ gmCalls' = Append(gmCalls, GemModels[gmModel])
    /\ gmLast' = Brought(NoText, err)
    /\ IF err = "busy" THEN GemNextAttempt ELSE GemNextModel
    /\ UNCHANGED <<gmIn, gmPc, gmUsage, gmOut>>
    /\ UNCHANGED offGem

\* line 138
GemFail ==
    /\ gmPc = "loop"
    /\ gmModel > Len(GemModels) \/ gmIn.max_retries = 0
    /\ gmOut' = "{}"
    /\ gmPc' = "returned"
    /\ UNCHANGED <<gmIn, gmModel, gmAttempt, gmCalls, gmLast, gmUsage>>
    /\ UNCHANGED offGem

(***************************************************************************)
(* main of the job-prospect pipeline (prospek_kerja-scraper run.py 80-391) *)
(* with fetch_html (crawler.py 54-64): the crawl of the majors with its    *)
(* checkpoint and its output file, over several runs.  A major is named by *)
(* its url, an url by its place in the listing.                            *)
(***************************************************************************)
MaxMajors == 26
MaxPkRuns == 2

\* run.py 204
MajorsFlushEvery == 25

\* run.py 148: list(iter_all_majors(cfg))
majors == [i \in 1..MaxMajors |-> i]

Range(s) == {s[i] : i \in 1..Len(s)}

PkEnded == {"crashed", "failed", "stopped", "done"}

InitPk ==
    /\ pkDisk = [done_urls |-> {}, majors_jsonl |-> <<>>]
    /\ pkRun = 0
    /\ pkPc = "idle"
    /\ pkI = 1
    /\ done_urls = {}
    /\ existing_major_urls = {}
    /\ buffer_major = <<>>
    /\ STOP_REQUESTED = FALSE

\* run.py 103-151; listingOk: the fetches of iter_all_majors succeed
PkStart(listingOk) ==
    /\ pkPc \in PkEnded \cup {"idle"}
    /\ pkRun < MaxPkRuns
    /\ pkRun' = pkRun + 1
    /\ done_urls' = pkDisk.done_urls
    /\ existing_major_urls' = Range(pkDisk.majors_jsonl)
    /\ buffer_major' = <<>>
    /\ pkI' = 1
    /\ STOP_REQUESTED' = FALSE
    /\ pkPc' = IF listingOk THEN "loop" ELSE "failed"
    /\ UNCHANGED pkDisk
    /\ UNCHANGED offPk

PkInLoop == pkPc = "loop" /\ ~STOP_REQUESTED /\ pkI <= Len(majors)

\* run.py 157
PkKnown(url) == url \in done_urls \/ url \in existing_major_urls

\* run.py 157-159
PkSkip ==
    /\ PkInLoop
    /\ PkKnown(majors[pkI])
    /\ done_urls' = done_urls \cup {majors[pkI]}
    /\ pkI' = pkI + 1
    /\ UNCHANGED <<pkDisk, pkRun, pkPc, existing_major_urls, buffer_major,
                   STOP_REQUESTED>>
    /\ UNCHANGED offPk

\* run.py 198-201: the checkpoint file after the save of one major
SavedAfterMajor(disk0, urls) == [disk0 EXCEPT !.done_urls = urls]

\* run.py 161-201; crawler.py 54-64: fetch_html raises after its retries
PkMajor(fetchOk) ==
    /\ PkInLoop
    /\ ~PkKnown(majors[pkI])
    /\ IF fetchOk
       THEN /\ buffer_major' = Append(buffer_major, majors[pkI])
            /\ existing_major_urls' = existing_major_urls \cup {majors[pkI]}
            /\ done_urls' = done_urls \cup {majors[pkI]}
            /\ pkDisk' = SavedAfterMajor(pkDisk, done_urls')
            /\ pkPc' = "flush"
       ELSE /\ pkPc' = "failed"
            /\ UNCHANGED <<pkDisk, done_urls, existing_major_urls,
                           buffer_major>>
    /\ UNCHANGED <<pkRun, pkI, STOP_REQUESTED>>
    /\ UNCHANGED offPk

\* run.py 36-41
append_jsonl(disk0, urls) == [disk0 EXCEPT !.majors_jsonl = @ \o urls]

\* run.py 203-206
PkFlush ==
    /\ pkPc = "flush"
    /\ IF Len(buffer_major) >= MajorsFlushEvery
       THEN /\ pkDisk' = append_jsonl(pkDisk, buffer_major)
            /\ buffer_major' = <<>>
       ELSE UNCHANGED <<pkDisk, buffer_major>>
    /\ pkI' = pkI + 1
    /\ pkPc' = "loop"
    /\ UNCHANGED <<pkRun, done_urls, existing_major_urls, STOP_REQUESTED>>
    /\ UNCHANGED offPk

\* run.py 153-154 and 208-217: the loop ends or breaks
PkLoopEnd ==
    /\ pkPc = "loop"
    /\ STOP_REQUESTED \/ pkI > Len(majors)
    /\ buffer_major' = <<>>
    /\ pkDisk' = IF STOP_REQUESTED
                 THEN [append_jsonl(pkDisk, buffer_major)
                          EXCEPT !.done_urls = done_urls]
                 ELSE append_jsonl(pkDisk, buffer_major)
    /\ pkPc' = IF STOP_REQUESTED THEN "stopped" ELSE "jobs"
    /\ UNCHANGED <<pkRun, pkI, done_urls, existing_major_urls, STOP_REQUESTED>>
    /\ UNCHANGED offPk

\* run.py 222-390: the job titles are enriched; every flush_jobs saves the
\* checkpoint with the done_urls of the crawl (238-241)
PkJobs ==
    /\ pkPc = "jobs"
    /\ pkDisk' = [pkDisk EXCEPT !.done_urls = done_urls]
    /\ pkPc' = IF STOP_REQUESTED THEN "stopped" ELSE "done"
    /\ UNCHANGED <<pkRun, pkI, done_urls, existing_major_urls, buffer_major,
                   STOP_REQUESTED>>
    /\ UNCHANGED offPk

\* run.py 73-77: SIGINT arrives
PkSigint ==
    /\ pkPc \in {"loop", "flush", "jobs"}
    /\ ~STOP_REQUESTED
    /\ STOP_REQUESTED' = TRUE
    /\ UNCHANGED <<pkDisk, pkRun, pkPc, pkI, done_urls, existing_major_urls,
                   buffer_major>>
    /\ UNCHANGED offPk

\* the process is killed: memory is lost, the files stay
PkCrash ==
    /\ pkPc \in {"loop", "flush", "jobs"}
    /\ pkPc' = "crashed"
    /\ UNCHANGED <<pkDisk, pkRun, pkI, done_urls, existing_major_urls,
                   buffer_major, STOP_REQUESTED>>
    /\ UNCHANGED offPk

(***************************************************************************)
(* main of the jurusan pipeline (jurusan-scraper run_main_all.py 221-335)  *)
(* with save_jurusan_outputs (app/io_jurusan_excel.py 83-85), over several *)
(* runs on one output directory.  An entity is named by the place of its   *)
(* row in input.xlsx; its programs give one row, written as the entity.    *)
(* json.dump(state, open(STATE_PATH, "w")) is followed chunk by chunk.     *)
(***************************************************************************)
MaxUniv == 2
MaxJurRuns == 2
JurChunks == 2

\* app/config.py 22
SAVE_EVERY_UNIV == 1

Univ == 1..MaxUniv

\* run_main_all.py 224: the state of a run without a state file
FreshState == [k \in Univ |-> ""]

NoFile == [exists |-> FALSE, obj |-> FreshState, n |-> 0]

\* json.load gives the object back only from a file written to its end
Loadable(f) == f.exists /\ f.n = JurChunks

JurEnded == {"crashed", "done", "loadfailed"}

InitJur ==
    /\ jFile = NoFile
    /\ jOut = [final |-> <<>>, partial |-> <<>>, written |-> FALSE]
    /\ jRun = 0
    /\ jPc = "idle"
    /\ jI = 1
    /\ jState = FreshState
    /\ jRows = <<>>
    /\ jPending = ""

\* run_main_all.py 221-233
JurStart ==
    /\ jPc \in JurEnded \cup {"idle"}
    /\ jRun < MaxJurRuns
    /\ jRun' = jRun + 1
    /\ jI' = 1
    /\ jRows' = <<>>
    /\ jPending' = ""
    /\ IF ~jFile.exists
       THEN jState' = FreshState /\ jPc' = "loop"
       ELSE IF Loadable(jFile)
       THEN jState' = jFile.obj /\ jPc' = "loop"
       ELSE jState' = FreshState /\ jPc' = "loadfailed"
    /\ UNCHANGED <<jFile, jOut>>
    /\ UNCHANGED offJur

JurInLoop == jPc = "loop" /\ jI <= MaxUniv

\* run_main_all.py 241-243
JurSkip ==
    /\ JurInLoop
    /\ jState[jI] = "ok"
    /\ jI' = jI + 1
    /\ UNCHANGED <<jFile, jOut, jRun, jPc, jState, jRows, jPending>>
    /\ UNCHANGED offJur

\* run_main_all.py 247-277, 281-312, 321-325, up to the open(STATE_PATH, "w")
\* of the save, which empties the file
JurExtract(outcome) ==
    /\ JurInLoop
    /\ jState[jI] # "ok"
    /\ jRows' = IF outcome = "ok" THEN Append(jRows, jI) ELSE jRows
    /\ jState' = [jState EXCEPT ![jI] = outcome]
    /\ jFile' = [exists |-> TRUE, obj |-> jState', n |-> 0]
    /\ jPending' = outcome
    /\ jPc' = "saving"
    /\ UNCHANGED <<jOut, jRun, jI>>
    /\ UNCHANGED offJur

\* io_jurusan_excel.py 83-85 after build_jurusan_frame
save_jurusan_outputs(out, df, which) ==
    IF which = "final" THEN [out EXCEPT !.final = df, !.written = TRUE]
    ELSE [out EXCEPT !.partial = df]

\* run_main_all.py 314-317 and 327-329: the partial output after the save
AfterSave(out) ==
    IF jPending = "ok" /\ SAVE_EVERY_UNIV # 0 /\ jI % SAVE_EVERY_UNIV = 0
    THEN save_jurusan_outputs(out, jRows, "partial")
    ELSE IF jPending \in {"error"} /\ jRows # <<>>
    THEN save_jurusan_outputs(out, jRows, "partial")
    ELSE out

\* json.dump writes the next chunk; after the last one the iteration ends
JurSaveWrite ==
    /\ jPc = "saving"
    /\ jFile.n < JurChunks
    /\ jFile' = [jFile EXCEPT !.n = @ + 1]
    /\ IF jFile.n + 1 = JurChunks
       THEN /\ jOut' = AfterSave(jOut)
            /\ jI' = jI + 1
            /\ jPc' = "loop"
            /\ jPending' = ""
       ELSE UNCHANGED <<jOut, jI, jPc, jPending>>
    /\ UNCHANGED <<jRun, jState, jRows>>
    /\ UNCHANGED offJur

\* run_main_all.py 332-333
JurFinal ==
    /\ jPc = "loop"
    /\ jI > MaxUniv
    /\ jOut' = save_jurusan_outputs(jOut, jRows, "final")
    /\ jPc' = "done"
    /\ UNCHANGED <<jFile, jRun, jI, jState, jRows, jPending>>
    /\ UNCHANGED offJur

\* the process is killed: memory is lost, the files stay
JurCrash ==
    /\ jPc \in {"loop", "saving"}
    /\ jPc' = "crashed"
    /\ UNCHANGED <<jFile, jOut, jRun, jI, jState, jRows, jPending>>
    /\ UNCHANGED offJur

(***************************************************************************)
(* The parts at rest: the state of a part while another one is studied     *)
(***************************************************************************)
QuietVal ==
    /\ vCall = [module |-> "biaya", fn |-> "validate_text",
                text |-> {}, tries |-> 0]
    /\ vPc = "returned"
    /\ vI = 0
    /\ vLast = "empty"
    /\ vLog = <<>>
    /\ vResult = ""

QuietCrawl ==
    /\ cIn = [official_website |-> EmptyUrl, max_pages |-> 0, site |-> "chain"]
    /\ q = {}
    /\ counter = 0
    /\ visited = {}
    /\ candidates = <<>>
    /\ cPc = "returned"
    /\ cUrl = EmptyUrl
    /\ cPopped = <<>>
    /\ fetchLog = <<>>
    /\ best = <<>>

QuietDedupe ==
    /\ dIn = <<>>
    /\ dI = 1
    /\ seen = <<>>
    /\ dPc = "returned"

QuietHelpers ==
    /\ hIn = [fn |-> "none"]
    /\ hPc = "returned"
    /\ hOut = <<>>

QuietAdm ==
    /\ aIn = [official_website |-> EmptyUrl, max_pages |-> 0, site |-> "bare",
              menu_links |-> <<>>]
    /\ aPc = "returned"
    /\ roots = <<>>
    /\ aQ = <<>>
    /\ aVisited = {}
    /\ aCandidates = <<>>
    /\ aBest = <<>>

QuietHist == interrupted = {}

QuietGem ==
    /\ gmIn = [primary |-> "", max_retries |-> 0]
    /\ gmPc = "returned"
    /\ gmModel = 1
    /\ gmAttempt = 1
    /\ gmCalls = <<>>
    /\ gmLast = Brought(NoText, "")
    /\ gmUsage = 0
    /\ gmOut = ""

QuietPk ==
    /\ pkDisk = [done_urls |-> {}, majors_jsonl |-> <<>>]
    /\ pkRun = 0
    /\ pkPc = "quiet"
    /\ pkI = 1
    /\ done_urls = {}
    /\ existing_major_urls = {}
    /\ buffer_major = <<>>
    /\ STOP_REQUESTED = FALSE

QuietJur ==
    /\ jFile = NoFile
    /\ jOut = [final |-> <<>>, partial |-> <<>>, written |-> FALSE]
    /\ jRun = 0
    /\ jPc = "quiet"
    /\ jI = 1
    /\ jState = FreshState
    /\ jRows = <<>>
    /\ jPending = ""

(***************************************************************************)
(* Specifications                                                          *)
(***************************************************************************)
Init ==
    InitRun /\ InitSave /\ QuietGate /\ QuietVal /\ QuietCrawl /\ QuietDedupe
    /\ QuietHelpers /\ QuietAdm
    /\ QuietGem
    /\ QuietHist
    /\ QuietPk
    /\ QuietJur

Next ==
    \/ \E a \in ArgSets : StartRun(a)
    \/ \E t \in Tasks : Start(t)
    \/ \E t \in Tasks : Wake(t)
    \/ \E t \in Tasks : CrawlFetch(t)
    \/ \E t \in Tasks : CrawlRaise(t)
    \/ \E t \in Tasks, ok \in BOOLEAN : CrawlReturn(t, ok)
    \/ \E t \in Tasks : LoopSkip(t)
    \/ \E t \in Tasks, r \in BOOLEAN : HtmlFetch(t, r)
    \/ \E t \in Tasks, res \in {"ok", "fail", "raise"} : AssetFetch(t, res)
    \/ \E t \in Tasks, out \in Verdicts \cup {"gate", "raise"} : Validate(t, out)
    \/ \E t \in Tasks, n \in 0..MaxItems, r \in BOOLEAN : Extract(t, n, r)
    \/ \E t \in Tasks : Handler(t)
    \/ \E t \in Tasks : Finish(t)
    \/ MainWrite
    \/ MainAbort
    \/ Crash

Spec == Init /\ [][Next]_vars

NextSave ==
    \/ SaveOpen
    \/ SaveWrite
    \/ SaveClose
    \/ SaveReplace
    \/ SaveCrash
    \/ ReadTarget

InitSaveSpec ==
    QuietRun /\ InitSave /\ QuietGate /\ QuietVal /\ QuietCrawl /\ QuietDedupe
    /\ QuietHelpers /\ QuietAdm
    /\ QuietGem
    /\ QuietHist
    /\ QuietPk
    /\ QuietJur

SpecSave == InitSaveSpec /\ [][NextSave]_vars

NextGate ==
    \/ \E res \in {"ok", "fail", "raise"} : GateFetch(res)
    \/ \E out \in Verdicts \cup {"raise"} : GateValidate(out)
    \/ \E res \in {"ok", "fail", "raise"}, out \in Verdicts \cup {"raise"} :
           GateAsset(res, out)
    \/ \E n \in 0..MaxItems, r \in BOOLEAN : GateAssetExtract(n, r)
    \/ GateFallbackEnd
    \/ GateDecide
    \/ \E n \in 0..MaxItems, r \in BOOLEAN : GateExtract(n, r)
    \/ GateDone

InitGateSpec ==
    QuietRun /\ InitSave /\ InitGate /\ QuietVal /\ QuietCrawl /\ QuietDedupe
    /\ QuietHelpers /\ QuietAdm
    /\ QuietGem
    /\ QuietHist
    /\ QuietPk
    /\ QuietJur

SpecGate == InitGateSpec /\ [][NextGate]_vars

NextVal ==
    \/ ValStart
    \/ \E o \in OracleOutcomes : RetryAttempt(o)
    \/ RetryExhausted
    \/ BiayaParse
    \/ \E o \in OracleOutcomes : JalurCall(o)

InitValSpec ==
    QuietRun /\ InitSave /\ QuietGate /\ InitVal /\ QuietCrawl /\ QuietDedupe
    /\ QuietHelpers /\ QuietAdm
    /\ QuietGem
    /\ QuietHist
    /\ QuietPk
    /\ QuietJur

SpecValidator == InitValSpec /\ [][NextVal]_vars

NextCrawl ==
    \/ CrawlPop
    \/ \E ok \in BOOLEAN : CrawlFetched(ok)
    \/ CrawlReturned

InitCrawlSpec ==
    QuietRun /\ InitSave /\ QuietGate /\ QuietVal /\ InitCrawl /\ QuietDedupe
    /\ QuietHelpers /\ QuietAdm
    /\ QuietGem
    /\ QuietHist
    /\ QuietPk
    /\ QuietJur

SpecCrawl == InitCrawlSpec /\ [][NextCrawl]_vars

\* every fetch call returns and the coroutine is always resumed
SpecCrawlLive == SpecCrawl /\ WF_vars(NextCrawl)

NextDedupe ==
    \/ DedupeStep
    \/ DedupeReturn

InitDedupeSpec ==
    QuietRun /\ InitSave /\ QuietGate /\ QuietVal /\ QuietCrawl /\ InitDedupe
    /\ QuietHelpers /\ QuietAdm
    /\ QuietGem
    /\ QuietHist
    /\ QuietPk
    /\ QuietJur

SpecDedupe == InitDedupeSpec /\ [][NextDedupe]_vars

NextHelpers ==
    \/ CallCanonical
    \/ CallSameSite
    \/ CallNarrow
    \/ CallNormalize
    \/ CallExtract
    \/ CallExtractLinks

InitHelpersSpec ==
    QuietRun /\ InitSave /\ QuietGate /\ QuietVal /\ QuietCrawl /\ QuietDedupe
    /\ InitHelpers /\ QuietAdm
    /\ QuietGem
    /\ QuietHist
    /\ QuietPk
    /\ QuietJur

SpecHelpers == InitHelpersSpec /\ [][NextHelpers]_vars

NextAdm ==
    \/ RootsFromMenu
    \/ \E ok \in BOOLEAN : RootsFromHomepage(ok)
    \/ SeedQueue
    \/ \E ok \in BOOLEAN : BfsVisit(ok)
    \/ AdmReturn

InitAdmSpec ==
    QuietRun /\ InitSave /\ QuietGate /\ QuietVal /\ QuietCrawl /\ QuietDedupe
    /\ QuietHelpers /\ InitAdm
    /\ QuietGem
    /\ QuietHist
    /\ QuietPk
    /\ QuietJur

SpecAdmission == InitAdmSpec /\ [][NextAdm]_vars

\* crawl_site runs to its end once called
SpecAdmissionLive == SpecAdmission /\ WF_vars(NextAdm)


NextGem ==
    \/ \E text \in GemTexts : GemResponse(text)
    \/ \E err \in GemErrors : GemRaise(err)
    \/ GemFail

InitGemSpec ==
    QuietRun /\ InitSave /\ QuietGate /\ QuietVal /\ QuietCrawl /\ QuietDedupe
    /\ QuietHelpers /\ QuietAdm
    /\ InitGem
    /\ QuietHist
    /\ QuietPk
    /\ QuietJur

SpecGemini == InitGemSpec /\ [][NextGem]_vars

NextPk ==
    \/ \E listingOk \in BOOLEAN : PkStart(listingOk)
    \/ PkSkip
    \/ \E fetchOk \in BOOLEAN : PkMajor(fetchOk)
    \/ PkFlush
    \/ PkLoopEnd
    \/ PkJobs
    \/ PkSigint
    \/ PkCrash

InitPkSpec ==
    QuietRun /\ InitSave /\ QuietGate /\ QuietVal /\ QuietCrawl /\ QuietDedupe
    /\ QuietHelpers /\ QuietAdm /\ QuietGem /\ QuietHist
    /\ InitPk
    /\ QuietJur

SpecProspek == InitPkSpec /\ [][NextPk]_vars

NextJur ==
    \/ JurStart
    \/ JurSkip
    \/ \E outcome \in {"ok", "empty", "error"} : JurExtract(outcome)
    \/ JurSaveWrite
    \/ JurFinal
    \/ JurCrash

InitJurSpec ==
    QuietRun /\ InitSave /\ QuietGate /\ QuietVal /\ QuietCrawl /\ QuietDedupe
    /\ QuietHelpers /\ QuietAdm /\ QuietGem /\ QuietHist /\ QuietPk
    /\ InitJur

SpecJurusan == InitJurSpec /\ [][NextJur]_vars

(***************************************************************************)
(* Claims                                                                  *)
(***************************************************************************)
InSection(t) == task[t].pc \in {"crawl", "loop", "validate", "extract", "except"}

\* the step in which coroutine t leaves "new" (its Start step)
Begins(t) ==
    /\ t \in DOMAIN task /\ t \in DOMAIN task'
    /\ task[t].pc = "new"
    /\ task'[t].pc \notin {"new", "cancelled"}

StartId(t) == make_campus_id(task[t].campus, task[t].base)

C1_SkipStep(t) ==
    (/\ Begins(t)
     /\ Resume
     /\ task[t].base # <<>>
     /\ HasFile(StartId(t))
     /\ disk[StartId(t)].status = "done")
    => /\ task'[t].pc = "skipped"
       /\ task'[t].fetched = {} /\ task'[t].oracle = {}
       /\ all_candidates' = all_candidates \o disk[StartId(t)].candidates
       /\ all_validated' = all_validated \o disk[StartId(t)].validated
       /\ all_jalur_items' = all_jalur_items \o
              (IF disk[StartId(t)].has_jalur_items
               THEN disk[StartId(t)].jalur_items ELSE <<>>)
       /\ disk' = disk

C1_SkippedIdle ==
    \A t \in Tasks :
        task[t].pc = "skipped" => task[t].fetched = {} /\ task[t].oracle = {}

\* C1: with a done checkpoint and neither --no-resume nor --force, process_one
\* fetches nothing, asks the oracle nothing, and appends the checkpoint's
\* candidates, validated links and extracted items to the run aggregates.
C1_DoneSkip ==
    [] C1_SkippedIdle /\ [][\A t \in DOMAIN task : C1_SkipStep(t)]_vars

C1_Witness ==
    \E t \in Tasks :
        /\ task[t].pc = "skipped"
        /\ disk[task[t].campus_id].validated # <<>>
        /\ all_validated = disk[task[t].campus_id].validated
        /\ all_candidates # <<>>

\* C2: when one entity's pipeline raises, every other entity's pipeline still
\* completes and the run-level files are still written.
C2_FaultIsolation ==
    (phase \in {"written", "aborted"} /\ \E t \in Tasks : task[t].pc = "raised")
    => /\ \A u \in Tasks : task[u].pc # "raised" => Returned(u)
       /\ outFiles # <<>>

C3_HandlerStep(t) ==
    (/\ t \in DOMAIN task /\ t \in DOMAIN task'
     /\ task[t].pc = "except"
     /\ task'[t].pc \notin {"except", "cancelled"})
    => LET v == ValidatedRecord(task[t], Cand(t), "uncertain") IN
       /\ task'[t].pc = "loop"
       /\ task'[t].j = task[t].j + 1
       /\ all_validated' = Append(all_validated, v)
       /\ task'[t].cp_state.validated = Append(task[t].cp_state.validated, v)
       /\ Len(task'[t].cp_state.errors) = Len(task[t].cp_state.errors) + 1

\* an exception raised for a candidate never leaves process_one
C3_NoEscape == \A t \in Tasks : task[t].pc = "raised" => task[t].candidates = <<>>

C4_StatusMonotonic ==
    [][\A p \in DOMAIN disk :
          p \in DOMAIN disk' /\
          StatusRank(disk'[p].status) >= StatusRank(disk[p].status)]_vars

\* C5: whatever the step of a save at which the process dies, and whenever a
\* reader looks, the checkpoint path holds the complete previous content or
\* the complete new content.
C5_AtomicSave ==
    /\ Target \in DOMAIN fs =>
          /\ IsComplete(fs[Target])
          /\ fs[Target] \in {saveOld, Complete(saveObj)}
    /\ \A content \in observed : IsComplete(content)

C5_Witness ==
    /\ savePc = "idle"
    /\ saveObj >= 2
    /\ TmpPath(Target) \in DOMAIN fs
    /\ Len(fs[TmpPath(Target)]) \in 1..(Chunks - 1)
    /\ Target \in DOMAIN fs
    /\ fs[Target] = Complete(saveObj - 1)
    /\ Complete(saveObj - 1) \in observed

InSeq(x, seq) == \E i \in 1..Len(seq) : seq[i] = x

\* C6: a run that resumes an entity from a checkpoint and completes it puts
\* every validated link and extracted item of the final checkpoint into the
\* run-level aggregates.
C6_ResumeOutputComplete ==
    phase = "written" =>
        \A t \in Tasks :
            (task[t].pc = "finished" /\ task[t].resumed) =>
                /\ \A i \in 1..Len(task[t].cp_state.validated) :
                       InSeq(task[t].cp_state.validated[i], all_validated)
                /\ \A i \in 1..Len(task[t].cp_state.jalur_items) :
                       InSeq(task[t].cp_state.jalur_items[i], all_jalur_items)

\* C7: a run that skips an entity on its done checkpoint puts out, for that
\* entity, what the run that completed it put out.
C7_ResumeIdempotent ==
    (phase = "written" /\ Resume) =>
        \A t \in Tasks :
            (task[t].pc = "skipped" /\ task[t].campus_id \in DOMAIN firstOut) =>
                EntityOut(task[t].campus_id) = firstOut[task[t].campus_id]

CountKey(validated, k) ==
    Cardinality({i \in 1..Len(validated) : Key(validated[i]) = k})

\* C8: on resume, a candidate whose kind::url key is in the checkpoint's
\* validated list is not fetched, not sent to the oracle, and gets no
\* further validated record.
C8_NoRevalidation ==
    \A t \in Tasks :
        (task[t].resumed /\ Resume) =>
            \A k \in KeysOf(task[t].loaded) :
                /\ k[2] \notin task[t].fetched
                /\ k \notin task[t].oracle
                /\ CountKey(task[t].cp_state.validated, k)
                       = CountKey(task[t].loaded, k)

C8_Witness ==
    \E t \in Tasks :
        /\ task[t].resumed /\ Resume
        /\ task[t].pc = "finished"
        /\ task[t].loaded # <<>>
        /\ KeysOf(task[t].loaded) # KeysOf(task[t].cp_state.validated)
        /\ task[t].fetched # {}

\* C9: the number of pipelines inside the crawl/validate/extract section
\* never exceeds max(1, concurrency).
C9_BoundedConcurrency ==
    Cardinality({t \in Tasks : InSection(t)}) <= Max(1, args.concurrency)

C9_Witness ==
    /\ args.concurrency = 2
    /\ Cardinality({t \in Tasks : InSection(t)}) = 2

\* C10: two pipelines that are active at the same time never work on the same
\* checkpoint path.
C10_ExclusiveCheckpoint ==
    \A t, u \in Tasks :
        (t # u /\ InSection(t) /\ InSection(u)) =>
            checkpoint_path(task[t].campus_id) # checkpoint_path(task[u].campus_id)

\* C11: every extracted item of the run output has a source (candidate or
\* fallback asset) that the validator judged valid in this run; every call of
\* the extractor follows a valid verdict for its source; with --validate-only
\* the extractor is never called and no item is put out.
C11_EvidentiaryGating ==
    /\ \A i \in 1..Len(all_fee_items) :
           /\ <<all_fee_items[i]._source_url, "valid">> \in gVerdicts
           /\ <<all_fee_items[i]._source_url, "valid">> \in gExtracted
    /\ \A e \in gExtracted : e[2] = "valid" /\ e \in gVerdicts
    /\ gate.pc \in {"extract", "asset_extract"} => ~gArgs.validate_only
    /\ gArgs.validate_only => gExtracted = {} /\ all_fee_items = <<>>

\* an item extracted from a fallback asset of a page that was itself judged
\* not valid, next to an uncertain verdict that led to no extraction
C11_Witness ==
    /\ gate.pc = "done"
    /\ \E i \in 1..Len(all_fee_items) :
           all_fee_items[i]._source_url = "cdn/ukt-tabel.png"
    /\ <<"h/biaya", "uncertain">> \in gVerdicts
    /\ \A e \in gExtracted : e[1] # "h/biaya"

\* C12: when the local gate is false for the text, validate_text_with_gemini
\* returns "invalid" and the oracle is not called once.
C12_GateShortCircuit ==
    (vCall.fn = "validate_text" /\ ~LocalGate(vCall.module, vCall.text)) =>
        /\ vLog = <<>>
        /\ vPc \in {"start", "returned"}
        /\ vPc = "returned" => vResult = "invalid"

\* a text with a fee word but no amount, judged by the fee validator
C12_Witness ==
    /\ vCall.module = "biaya" /\ vCall.fn = "validate_text"
    /\ vCall.text = {"fee", "prodi"}
    /\ vPc = "returned" /\ vResult = "invalid" /\ vLog = <<>>

\* the oracle outcomes that are faults: an exception, an empty body, text that
\* is not JSON, JSON of another shape than {is_valid, reason, evidence_snippet}
FaultOutcomes ==
    {"exc", "none", "empty", "blank", "text", "mismatch", "emptyobj", "list"}

\* the oracle was called and every call of it ended in a fault
OracleFault ==
    /\ vLog # <<>>
    /\ \A i \in 1..Len(vLog) : vLog[i] \in FaultOutcomes

\* C13: when the oracle's outcome is a fault, the validators return
\* "uncertain": they neither raise nor return "valid" or "invalid".
C13_FaultIsUncertain ==
    (vCall.fn \in {"validate_text", "validate_bytes"} /\ OracleFault) =>
        /\ vPc # "raised"
        /\ vPc = "returned" => vResult = "uncertain"

\* _retry_call never made more than tries calls, made no call after one that
\* returned non-blank text, and returns that text
RetryBounded ==
    vCall.module = "biaya" =>
        /\ Len(vLog) <= Tries(vCall.fn)
        /\ Tries(vCall.fn) = IF vCall.fn = "extract" THEN 4 ELSE 3
        /\ \A i \in 1..Len(vLog) :
               (vLog[i] # "exc" /\ ~IsBlank(AttemptValue(vLog[i]))) =>
                   /\ i = Len(vLog)
                   /\ vPc # "retry"
                   /\ vLast = vLog[i]

\* C14: _retry_call calls the oracle at most tries times (3 when validating,
\* 4 when extracting), stops at the first call that returns non-blank text,
\* and no step of it raises, whatever the oracle does.
C14_RetryCall ==
    /\ []RetryBounded
    /\ [][vPc = "retry" => vPc' \in {"retry", "parse"} /\ vResult' = vResult]_vars

\* four oracle calls of the extractor that all fail, and the call returns
C14_Witness ==
    /\ vCall.fn = "extract"
    /\ vLog = <<"exc", "none", "blank", "exc">>
    /\ vPc = "returned"

\* C15: every heappop of the frontier takes an entry of the highest priority
\* among the pending ones and, among those of that priority, the one pushed
\* first.
C15_FrontierOrder ==
    cPopped # <<>> =>
        \A x \in cPopped.before :
            /\ -cPopped.entry[1] >= -x[1]
            /\ x[1] = cPopped.entry[1] => cPopped.entry[2] <= x[2]

\* the fee page was fetched before two pages of equal priority, and the
\* earlier of these two is popped
C15_Witness ==
    /\ cPopped # <<>>
    /\ \E x \in cPopped.before :
           x # cPopped.entry /\ x[1] = cPopped.entry[1]
    /\ \E i \in 1..Len(fetchLog) : fetchLog[i].url = U(1)

\* C16: within one crawl no fetch is issued for a URL whose canonical form
\* was fetched before or is the canonical final URL of an earlier fetch.
C16_NoRevisit ==
    \A i, j \in 1..Len(fetchLog) :
        i < j =>
            /\ canonical_for_visit(fetchLog[j].url) #
                   canonical_for_visit(fetchLog[i].url)
            /\ fetchLog[i].returned =>
                   canonical_for_visit(fetchLog[j].url) #
                       canonical_for_visit(fetchLog[i].final_url)

\* C17: crawl_site issues at most max_pages fetches.
C17_PageBudget == Len(fetchLog) <= cIn.max_pages

\* the budget ends a crawl that still has pending entries
C17_Witness ==
    /\ cPc = "returned"
    /\ cIn.max_pages = 3
    /\ Len(fetchLog) = 3
    /\ q # {}

\* C18: crawl_site returns for every site, also one where every page links
\* to pages not seen before, when every fetch returns.
C18_CrawlTerminates == <>(cPc = "returned")

\* the crawl of the site without end has returned
C18_Witness ==
    /\ cPc = "returned"
    /\ cIn.site = "chain"
    /\ cIn.max_pages = 2
    /\ Cardinality(visited) = 2
    /\ q # {}

ScoresOf(cs, k) == {cs[i].score : i \in {n \in 1..Len(cs) : CandKey(cs[n]) = k}}

\* C19: the returned list holds exactly one record for every (url, kind) of
\* the collected candidates, a record that was collected, with the highest
\* score collected for that (url, kind).
C19_DedupeMaxScore ==
    dPc = "returned" =>
        /\ {CandKey(seen[i]) : i \in 1..Len(seen)} =
               {CandKey(dIn[i]) : i \in 1..Len(dIn)}
        /\ \A i, j \in 1..Len(seen) :
               CandKey(seen[i]) = CandKey(seen[j]) => i = j
        /\ \A i \in 1..Len(seen) :
               /\ \E n \in 1..Len(dIn) : dIn[n] = seen[i]
               /\ \A sc \in ScoresOf(dIn, CandKey(seen[i])) : seen[i].score >= sc

\* scores 3, 7, 3 of one (url, kind) next to another key: two records, 7 kept
C19_Witness ==
    /\ dPc = "returned"
    /\ Len(dIn) = 3
    /\ dIn[1].score = 3 /\ dIn[2].score = 7
    /\ CandKey(dIn[1]) = CandKey(dIn[2])
    /\ CandKey(dIn[3]) # CandKey(dIn[1])
    /\ Len(seen) = 2
    /\ seen[1] = dIn[2]

RecordsOf(cs) == {cs[i] : i \in 1..Len(cs)}

PermutationsOf(cs) ==
    {[i \in 1..Len(cs) |-> cs[f[i]]] : f \in Permutations(1..Len(cs))}

\* C20: the deduplicator returns the same set of records (url, kind, score,
\* source_page, context_hint) for every order of the same candidates.
C20_DedupeOrderIndependent ==
    dPc = "returned" =>
        \A cs \in PermutationsOf(dIn) :
            RecordsOf(dedupe_candidates(cs)) = RecordsOf(seen)

\* the written forms of one URL that differ from u only in the order of the
\* query parameters, in one tracking or empty-valued parameter, in the
\* fragment, or in the trailing slash of a non-root path
CosmeticPairs ==
    {kv \in QueryPairs : kv[1] # "" /\ (LowerKey(kv[1]) \in drop_keys \/ kv[2] = "")}

CosmeticVariants(u) ==
    {[u EXCEPT !.query = p] : p \in PermutationsOf(u.query)}
    \cup {[u EXCEPT !.query = InsertAt(@, i, kv)] :
              i \in 0..Len(u.query), kv \in CosmeticPairs}
    \cup {[u EXCEPT !.frag = ~@]}
    \cup (IF u.page # 0 THEN {[u EXCEPT !.slash = ~@]} ELSE {})

\* C21: canonical_for_visit gives one value to two URLs that differ only in
\* query-parameter order, in tracking or empty-valued parameters, in the
\* fragment, or in a trailing slash on a non-root path; the root keeps its "/".
C21_CanonicalCosmetic ==
    HasReturned("canonical_for_visit") =>
        /\ \A v \in CosmeticVariants(hIn.url) : canonical_for_visit(v) = hOut
        /\ (hIn.url.page = 0 => hOut.slash = hIn.url.slash)

\* C22: same_site is true exactly when the hosts are equal or one of them is
\* a proper subdomain of the other, whichever argument it is.
C22_SameSiteSymmetric ==
    HasReturned("same_site") /\ hIn.url.host # <<>> /\ hIn.base.host # <<>> =>
        /\ hOut = (\/ hIn.url.host = hIn.base.host
                   \/ IsSubHost(hIn.url.host, hIn.base.host)
                   \/ IsSubHost(hIn.base.host, hIn.url.host))
        /\ hOut = same_site(hIn.base, hIn.url)

\* the first position at which at least MinKept good items and BadStreak bad
\* items in a row have been met (past the end when there is none)
GoodUpTo(items, p) == Cardinality({i \in 1..p : GoodItem(items[i])})

StopPoint(items) ==
    LET ps == {p \in BadStreak..Len(items) :
                  /\ GoodUpTo(items, p) >= MinKept
                  /\ \A i \in (p - BadStreak + 1)..p : ~GoodItem(items[i])}
    IN  IF ps = {} THEN Len(items) + 1
        ELSE CHOOSE p \in ps : \A r \in ps : p <= r

GoodBeforeStop(items) ==
    SelectSeq(SubSeq(items, 1, StopPoint(items) - 1), GoodItem)

\* C23 as stated: narrow_fee_items returns, in order, every good item met
\* before the point where at least 8 good items have been kept and 5 bad
\* items in a row have been seen, and nothing met after that point.
C23_NarrowKeepsAllGood ==
    HasReturned("narrow_fee_items") => hOut = GoodBeforeStop(hIn.items)

\* C23: narrow_fee_items returns, in order, the good items met before the
\* point where at least 8 good items have been kept and 5 bad items in a row
\* have been seen, cut to the first max_items (120) of them; nothing met
\* after that point is returned.
C23_NarrowKeepsUpToMax ==
    HasReturned("narrow_fee_items") =>
        hOut = Take(GoodBeforeStop(hIn.items), max_items)

\* 10 good items, 6 bad ones, 2 good ones: exactly the first 10 come back
C23_Witness ==
    /\ HasReturned("narrow_fee_items")
    /\ Len(hIn.items) = 18
    /\ \A i \in 1..18 : GoodItem(hIn.items[i]) <=> (i <= 10 \/ i >= 17)
    /\ hOut = SubSeq(hIn.items, 1, 10)

\* the name a raw item is given under, and the slug it brings along
RawName(x) == IF x.t = "dict" THEN Get(x, "name") ELSE x

LacksName(x) ==
    \/ x.t \notin {"dict", "str"}
    \/ RawName(x).t = "null"
    \/ RawName(x).t = "str" /\ Strip(RawName(x).v, Spaces) = <<>>

BringsSlug(x) ==
    /\ x.t = "dict"
    /\ Get(x, "slug").t = "str"
    /\ Strip(Get(x, "slug").v, Spaces) # <<>>

IsItem(j) == j.t = "dict"

\* C24 as stated: no item comes back for a raw item without a non-empty
\* name, and two raw items with identical names come back with identical
\* slugs.
C24_SameNameSameSlug ==
    HasReturned("_normalize_item") =>
        /\ LacksName(hIn.x) => hOut[1] = JNull
        /\ IsItem(hOut[1]) /\ IsItem(hOut[2]) /\ RawName(hIn.x) = RawName(hIn.y)
               => hOut[1].v["slug"] = hOut[2].v["slug"]

\* C24: no item comes back for a raw item without a non-empty name, and two
\* raw items with identical names that bring no non-blank slug of their own
\* come back with identical slugs.
C24_SameNameSameDerivedSlug ==
    HasReturned("_normalize_item") =>
        /\ LacksName(hIn.x) => hOut[1] = JNull
        /\ IsItem(hOut[1]) /\ IsItem(hOut[2]) /\ RawName(hIn.x) = RawName(hIn.y)
           /\ ~BringsSlug(hIn.x) /\ ~BringsSlug(hIn.y)
               => hOut[1].v["slug"] = hOut[2].v["slug"]

\* two different raw items of one name, one with a blank slug, both
\* normalized; and a nameless one dropped
C24_Witness ==
    /\ HasReturned("_normalize_item")
    /\ hIn.x # hIn.y
    /\ RawName(hIn.x) = RawName(hIn.y)
    /\ IsItem(hOut[1]) /\ IsItem(hOut[2])
    /\ hIn.x.t = "dict" /\ Get(hIn.x, "slug") = JStr(<<" ">>)
    /\ ~BringsSlug(hIn.y)
    /\ hOut[1].v["slug"] = JStr(<<"a", "b">>)

\* the three shapes the oracle's JSON may legally have
BareArray(raw) == raw.kind = "json" /\ raw.data.t = "list"

WrappedArray(raw) ==
    /\ raw.kind \in {"json", "embedded"}
    /\ raw.data.t = "dict"
    /\ \E k \in {"items", "data", "results"} : Get(raw.data, k).t = "list"

BareString(raw) == raw.kind = "json" /\ raw.data.t = "str"

NamedItem(j) ==
    /\ j.t = "dict"
    /\ Get(j, "name").t = "str"
    /\ Strip(Get(j, "name").v, Spaces) # <<>>

\* C25: extraction never raises; from a bare array, an array wrapped under
\* items/data/results or a bare string it returns a list of dict items with a
\* non-empty name, the same list for a wrapped array as for the bare one; from
\* any other or undecodable response it returns the empty list.
C25_ExtractionCoerces ==
    HasReturned("extract_items") =>
        /\ hOut # Raised
        /\ hOut.t = "list"
        /\ \A i \in 1..Len(hOut.v) : NamedItem(hOut.v[i])
        /\ \A k \in {"items", "data", "results"} :
               hIn.raw.data.t = "dict" /\ Get(hIn.raw.data, k).t = "list" =>
                   hOut = extract_items(hIn.module,
                                        Response("json", Get(hIn.raw.data, k)))
        /\ ~(BareArray(hIn.raw) \/ WrappedArray(hIn.raw) \/ BareString(hIn.raw))
               => hOut = JList(<<>>)

EntrySet(out) == {out[i] : i \in 1..Len(out)}

\* C26: every entry that extract_links_and_assets returns has a non-empty
\* http(s) URL, whatever unparseable or non-http(s) href/src the page holds,
\* and each link of the page that yields an entry on a page of its own yields
\* it on the whole page too.
C26_BadHrefDropped ==
    HasReturned("extract_links_and_assets") =>
        /\ \A e \in EntrySet(hOut) : e.url # EmptyUrl /\ e.url.host # <<>>
        /\ \A i \in 1..Len(hIn.page.els) :
               EntrySet(extract_links_and_assets(
                            U(0), [hIn.page EXCEPT !.els = <<hIn.page.els[i]>>]))
                   \subseteq EntrySet(hOut)

\* the steps of C27: the fetch of a pdf or image candidate that does not come
\* back with a body, and the handling of the error it raised
C27_FetchFailed(t) ==
    /\ t \in DOMAIN task /\ t \in DOMAIN task'
    /\ runNo' = runNo
    /\ task[t].pc = "loop" /\ InLoop(t) /\ ~AlreadyValidated(t)
    /\ Cand(t).kind \in {"pdf", "image"}
    /\ task'[t] # task[t]
    /\ task'[t].pc # "validate"

C27_FetchErrorHandled(t) ==
    /\ t \in DOMAIN task /\ t \in DOMAIN task'
    /\ runNo' = runNo
    /\ task[t].pc = "except" /\ task[t].exc = "RetryError"
    /\ Cand(t).kind \in {"pdf", "image"}
    /\ task'[t].pc \notin {"except", "cancelled"}

\* C27: when the fetch of a pdf or image candidate fails (non-2xx, empty body,
\* or an error that outlasts the fetcher's retries) the candidate is recorded
\* with verdict invalid, and no oracle call and no extraction is made for it.
C27_FetchFailureInvalid ==
    [][\A t \in Tasks :
          LET v == ValidatedRecord(task[t], Cand(t), "invalid")
              Recorded == /\ all_validated' = Append(all_validated, v)
                          /\ task'[t].cp_state.validated =
                                 Append(task[t].cp_state.validated, v)
              Untouched == /\ task'[t].oracle = task[t].oracle
                           /\ task'[t].extracted_set = task[t].extracted_set
                           /\ all_jalur_items' = all_jalur_items
          IN  /\ C27_FetchFailed(t) =>
                     /\ Untouched
                     /\ task'[t].pc = "loop" => Recorded
              /\ C27_FetchErrorHandled(t) => Untouched /\ Recorded]_vars

\* what C28 asks of a text
GatePattern(c) ==
    IF c.module = "biaya" THEN "money" \in c.text
    ELSE "date" \in c.text \/ "range" \in c.text

GateTopic(c) ==
    IF c.module = "biaya" THEN "fee" \in c.text ELSE "jalur" \in c.text

GateHint(c) == "prodi" \in c.text \/ "level" \in c.text

\* the call came back from the local gate, with no oracle call made
StoppedAtGate == vPc = "returned" /\ vLog = <<>> /\ vResult = "invalid"

\* C28: the local gate lets a text through exactly when the text holds a
\* monetary/date pattern and a topic keyword and a program hint or a level
\* hint.
C28_GateThreeParts ==
    (vCall.fn = "validate_text" /\ vPc # "start") =>
        (~StoppedAtGate <=>
            (GatePattern(vCall) /\ GateTopic(vCall) /\ GateHint(vCall)))

\* the first balanced {...} of a text: from its first "{" to the "}" that
\* closes it; <<>> when there is none
RECURSIVE ClosingAt(_, _, _)
ClosingAt(toks, i, depth) ==
    IF i > Len(toks) THEN 0
    ELSE IF toks[i] = "{" THEN ClosingAt(toks, i + 1, depth + 1)
    ELSE IF toks[i] = "}"
         THEN (IF depth = 1 THEN i ELSE ClosingAt(toks, i + 1, depth - 1))
    ELSE ClosingAt(toks, i + 1, depth)

FirstBalanced(toks) ==
    LET opens == {i \in 1..Len(toks) : toks[i] = "{"}
        first == CHOOSE i \in opens : \A k \in opens : i <= k
    IN  IF opens = {} THEN <<>>
        ELSE IF ClosingAt(toks, first + 1, 1) = 0 THEN <<>>
        ELSE SubSeq(toks, first, ClosingAt(toks, first + 1, 1))

VerdictOf(obj) ==
    IF obj = "true" THEN "valid"
    ELSE IF obj \in {"false", "mismatch"} THEN "invalid"
    ELSE "uncertain"

\* C29: when the response taken from the oracle is not JSON as a whole, the
\* fee validator's verdict is the one of the first balanced {...} of the
\* response when that object decodes, and "uncertain" only when it does not.
C29_FirstBalancedObject ==
    (/\ vCall.module = "biaya"
     /\ vCall.fn \in {"validate_text", "validate_bytes"}
     /\ vPc = "returned" /\ vLog # <<>>
     /\ ~IsBlank(vLast)
     /\ Decode(Tokens(vLast)) = "fail")
    => vResult = VerdictOf(Decode(FirstBalanced(Tokens(vLast))))

\* neither the menu nor the links of the homepage named an admission root
NoRootFound == aPc = "seed" /\ roots = <<>>

\* C30: when neither the menu links nor the homepage links yield an admission
\* root, crawl_site goes on from the homepage: it reaches the crawl loop with
\* a non-empty queue, and the homepage is visited.
C30_HomepageFallback ==
    /\ NoRootFound ~> (aPc = "bfs" /\ aQ # <<>>)
    /\ NoRootFound ~> (aStart \in aVisited)

(***************************************************************************)
(* C31: GeminiJSON._extract tries the models in list order, primary        *)
(* first, makes at most max_retries calls per model, returns the first     *)
(* non-empty JSON object it obtains, and returns {} when every model fails *)
(* or every response is empty or unparseable.                              *)
(***************************************************************************)
CallsOf(name) == Cardinality({i \in 1..Len(gmCalls) : gmCalls[i] = name})

PlaceOf(name) ==
    CHOOSE k \in 1..Len(GemModels) :
        /\ GemModels[k] = name
        /\ \A j \in 1..(k - 1) : GemModels[j] # name

\* the JSON object a response text carries ("" when it carries none)
ObjectIn(text) == IF text.body \in {"D", "Djson"} THEN text.body ELSE ""

C31_ExtractOrderedBounded ==
    /\ gmCalls # <<>> => gmCalls[1] = gmIn.primary
    /\ \A i, j \in 1..Len(gmCalls) :
           i < j => PlaceOf(gmCalls[i]) <= PlaceOf(gmCalls[j])
    /\ \A i \in 1..Len(gmCalls) : CallsOf(gmCalls[i]) <= gmIn.max_retries
    /\ gmPc = "loop" /\ gmCalls # <<>> => ObjectIn(gmLast.text) = ""
    /\ gmPc = "returned" /\ gmIn.primary # "" =>
           gmOut = IF ObjectIn(gmLast.text) # "" THEN ObjectIn(gmLast.text)
                   ELSE "{}"

(***************************************************************************)
(* C32: when a run was interrupted after a candidate's valid verdict had   *)
(* reached the checkpoint file and before its extraction began, a later    *)
(* resumed run (no --no-resume, no --force) that completes the entity has  *)
(* handed that candidate to the extractor.                                 *)
(***************************************************************************)
C32_ExtractionResumed ==
    \A t \in Tasks :
        (phase = "gathering" /\ Resume /\ ~args.validate_only
         /\ task[t].pc = "finished")
        => \A c \in interrupted :
               c[1] = task[t].campus_id => c[2] \in task[t].tried

(***************************************************************************)
(* C33: in every state of a checkpoint file the validated list holds at    *)
(* most one record per candidate (kind, url).                              *)
(***************************************************************************)
C33_OneRecordPerCandidate ==
    \A path \in DOMAIN disk :
        LET validated == disk[path].validated
        IN  \A i, j \in 1..Len(validated) :
                Key(validated[i]) = Key(validated[j]) => i = j

(***************************************************************************)
(* C34: whenever a checkpoint file has status done, every candidate of its *)
(* candidates list has a record with the same (kind, url) in its validated *)
(* list.                                                                   *)
(***************************************************************************)
C34_DoneCoversCandidates ==
    \A path \in DOMAIN disk :
        IsDone(disk[path])
        => \A i \in 1..Len(disk[path].candidates) :
               Key(disk[path].candidates[i]) \in KeysOf(disk[path].validated)

\* a done checkpoint of two candidates completed by a resumed coroutine that
\* skipped one of them and judged the other
C34_Witness ==
    \E t \in Tasks :
        /\ task[t].pc = "finished"
        /\ task[t].resumed
        /\ Len(task[t].candidates) = 2
        /\ task[t].loaded # <<>>
        /\ task[t].fetched # {}
        /\ HasFile(checkpoint_path(task[t].campus_id))
        /\ IsDone(disk[checkpoint_path(task[t].campus_id)])

(***************************************************************************)
(* C35: a coroutine that resumed from a checkpoint of status crawled does  *)
(* not call crawl_site and issues no crawl fetch, whatever the number of   *)
(* stored candidates.                                                      *)
(***************************************************************************)
C35_NoRecrawl ==
    \A t \in Tasks :
        (task[t].resumed /\ task[t].pc = "crawl")
        => task[t].cp_state.status # "crawled"

(***************************************************************************)
(* C36: in the job-prospect pipeline, whenever the process has ended (by a *)
(* kill, a fetch failure, an interrupt or normally), every url in the      *)
(* done_urls of the saved checkpoint has its record in                     *)
(* majors_prospek.jsonl, and a run that ends normally leaves the record of *)
(* every major in the file.                                                *)
(***************************************************************************)
C36_DoneUrlsPersisted ==
    /\ pkPc \in PkEnded => pkDisk.done_urls \subseteq Range(pkDisk.majors_jsonl)
    /\ pkPc = "done" => Range(majors) \subseteq Range(pkDisk.majors_jsonl)

(***************************************************************************)
(* C37: in the jurusan pipeline, when a run has written the final output   *)
(* files, they hold the rows of every entity marked ok in the state file,  *)
(* also of the entities the run skipped because they were marked ok.       *)
(***************************************************************************)
C37_FinalHoldsEveryOk ==
    (jPc = "done" /\ Loadable(jFile))
    => \A k \in Univ : jFile.obj[k] = "ok" => k \in Range(jOut.final)

(***************************************************************************)
(* C38: in the jurusan pipeline, a kill at any point while the run state   *)
(* is being saved leaves a state file that the next run can load, so the   *)
(* next run starts.                                                        *)
(***************************************************************************)
C38_StateFileLoadable ==
    /\ jPc = "crashed" => (~jFile.exists \/ Loadable(jFile))
    /\ jPc # "loadfailed"

(***************************************************************************)
(* C39: for every input list, the result of narrow_fee_items is an         *)
(* order-preserving subsequence of the input, of length at most max_items, *)
(* in which every item is good; it is empty exactly when the input has no  *)
(* good item, and the global-filter fallback adds no item.                 *)
(***************************************************************************)
\* items carry their place in the input as id
PlacesIncrease(xs, ys) ==
    /\ \A i \in 1..Len(xs) :
           xs[i].id \in 1..Len(ys) /\ xs[i] = ys[xs[i].id]
    /\ \A i, j \in 1..Len(xs) : i < j => xs[i].id < xs[j].id

HasGood(items) == \E i \in 1..Len(items) : GoodItem(items[i])

C39_NarrowSubsequence ==
    HasReturned("narrow_fee_items") =>
        /\ PlacesIncrease(hOut, hIn.items)
        /\ Len(hOut) <= max_items
        /\ \A i \in 1..Len(hOut) : GoodItem(hOut[i])
        /\ hOut = <<>> <=> ~HasGood(hIn.items)
        /\ NarrowScan(hIn.items, 1, <<>>, FALSE, 0) = <<>> => hOut = <<>>

\* a list that opens with items that are not good and whose later good items
\* are cut off by the stop: some good items come back, not all of them
C39_Witness ==
    /\ HasReturned("narrow_fee_items")
    /\ hIn.items # <<>>
    /\ ~GoodItem(hIn.items[1])
    /\ hOut # <<>>
    /\ Len(hOut) < Len(SelectSeq(hIn.items, GoodItem))

\* C40: every CandidateLink returned by crawl_site has a canonical URL on
\* the entity's own site (same_site with the canonical start URL), also when
\* a visited page redirects to another host or to a cosmetic variant.
C40_CandidatesOnSite ==
    cPc = "returned" =>
        \A i \in 1..Len(best) :
            /\ best[i].url = canonical_for_visit(best[i].url)
            /\ same_site(best[i].url, start)

====
